---- MODULE Spec2Model ----
(***************************************************************************)
(* Model of the ticket assignment engine of AI_Ticket_Manager              *)
(* (backend/ai_engine/assigner.py, backend/ai_engine/utils.py).            *)
(*                                                                         *)
(* Text (names, error messages, reasons, skills) is a sequence of tokens;  *)
(* the substring tests of the code are containment of a token sequence.    *)
(* Availability is kept in tenths, capacities in tenths of a story point   *)
(* and scores in hundredths, so that the arithmetic stays in the integers. *)
(***************************************************************************)
EXTENDS Integers, Sequences, FiniteSets, TLC

\* ------------------------------------------------------------------ bounds
\* number of tickets of the batch
NumTickets == 2
\* largest max_workers argument tried
MaxWorkersBound == 2

\* ------------------------------------------------------- program constants
\* a retry budget of three attempts
MaxRetriesThree == 2 + 1
max_retries == 2
NominalCapacity == 20
BackoffUnit == 2
InitialBestScore == -100

\* -------------------------------------------------------------------- text
Lower(tok) ==
    CASE tok = "Rate Limit" -> "rate limit"
      [] tok = "Authentication" -> "authentication"
      [] tok = "Python" -> "python"
      [] tok = "Java" -> "java"
      [] OTHER -> tok

LowerText(text) == [i \in DOMAIN text |-> Lower(text[i])]

\* needle in text
Contains(text, needle) ==
    \E i \in 1..(Len(text) + 1) :
        /\ i + Len(needle) - 1 <= Len(text)
        /\ SubSeq(text, i, i + Len(needle) - 1) = needle

IsSpace(tok) == tok = " "

RECURSIVE LStrip(_)
LStrip(text) ==
    IF text # <<>> /\ IsSpace(Head(text)) THEN LStrip(Tail(text)) ELSE text

RECURSIVE RStrip(_)
RStrip(text) ==
    IF text # <<>> /\ IsSpace(text[Len(text)])
    THEN RStrip(SubSeq(text, 1, Len(text) - 1))
    ELSE text

\* str.strip()
Strip(text) == RStrip(LStrip(text))

\* ------------------------------------------------------------------ roster
VARIABLE roster         \* which developers CSV load_developers_csv reads

Developer(name, availability, current_workload, skills, experience_years, title) ==
    [name |-> <<name>>, availability |-> availability,
     current_workload |-> current_workload, skills |-> skills,
     experience_years |-> experience_years, title |-> <<title>>]

\* The developers CSV files tried. The first is the roster of the batch runs;
\* the others are inputs of the Fallback Scorer: one with a half-available
\* developer, one with developers at and over the nominal capacity and two
\* equal developers. The last is a roster for batch runs whose developers
\* have room for one ticket each.
RosterFiles ==
    << << Developer("Alice", 10, 15, <<"Python", "sql">>, 5, "Backend Engineer"),
          Developer("Bob", 5, 10, <<"Java">>, 2, "Software Engineer") >>,
       << Developer("A", 10, 0, <<"python">>, 5, "Software Engineer"),
          Developer("B", 10, 0, <<"java">>, 2, "Software Engineer"),
          Developer("C", 5, 10, <<"python">>, 10, "Software Engineer") >>,
       << Developer("X", 10, 20, <<"sql">>, 0, "Software Engineer"),
          Developer("Y", 10, 19, <<"Java">>, 0, "Software Engineer"),
          Developer("Z", 10, 19, <<"Java">>, 0, "Software Engineer"),
          Developer("W", 5, 24, <<"Python">>, 9, "Software Engineer") >>,
       << Developer("Alice", 10, 17, <<"Python">>, 5, "Backend Engineer"),
          Developer("Bob", 10, 18, <<"go">>, 2, "Software Engineer") >> >>

\* developers_df: the rows of the developers CSV, in file order
developers_df == RosterFiles[roster]

\* developers_df['name'].values
RosterNames == {developers_df[i].name : i \in DOMAIN developers_df}

\* developers_df[developers_df['name'] == name].iloc[0]
DevRow(name) ==
    developers_df[CHOOSE i \in DOMAIN developers_df :
        /\ developers_df[i].name = name
        /\ \A j \in DOMAIN developers_df : developers_df[j].name = name => i <= j]

\* ----------------------------------------------------------------- tickets
Tickets == 1..NumTickets

\* row i of tickets_df; ids are unique and not in row order
TicketRow(i) ==
    [id |-> (i * 7) % 10,
     story_points |-> 2 + (i % 2),
     required_skill |-> IF i % 2 = 1 THEN <<"Python">> ELSE <<"java">>]

\* int(ticket.get('story_points', 0) or 0)
StoryPoints(ticket) == ticket.story_points

\* ----------------------------------------------------------- capacity model
\* a capacity that is cut off at zero
calculate_developer_capacity_Clamped(availability, current_workload) ==
    IF current_workload > NominalCapacity
    THEN 0
    ELSE availability * (NominalCapacity - current_workload)

\* availability * (20 - current_workload), in tenths of a story point
calculate_developer_capacity(availability, current_workload) ==
    availability * (NominalCapacity - current_workload)

\* remaining capacity of a roster row under a tracker, in tenths
RemainingCapacity(dev, tracker) ==
    calculate_developer_capacity(dev.availability, dev.current_workload)
        - 10 * tracker[dev.name].story_points

\* ---------------------------------------------------------- fallback scorer
NoneDev == <<"None">>

\* the score without the skill match bonus
FallbackScore_NoSkillBonus(dev, ticket, tracker) ==
    4 * RemainingCapacity(dev, tracker)
    + 50 * (10 - tracker[dev.name].tickets)
    + 10 * dev.experience_years

\* the score of one developer, in hundredths
FallbackScore(dev, ticket, tracker) ==
    4 * RemainingCapacity(dev, tracker)
    + (IF Contains(LowerText(dev.skills), LowerText(ticket.required_skill))
       THEN 500 ELSE 0)
    + 50 * (10 - tracker[dev.name].tickets)
    + 10 * dev.experience_years

\* the gate left out: nobody is skipped
OverCapacity_Never(dev, ticket, tracker) == FALSE

\* if remaining_capacity < story_points: continue (line 307)
OverCapacity(dev, ticket, tracker) ==
    RemainingCapacity(dev, tracker) < 10 * StoryPoints(ticket)

\* the for loop over developers_df.iterrows(), from row i on
RECURSIVE ScoreLoop(_, _, _, _, _)
ScoreLoop(i, best_dev, best_score, ticket, tracker) ==
    IF i > Len(developers_df) THEN best_dev
    ELSE LET dev == developers_df[i]
             score == FallbackScore(dev, ticket, tracker)
         IN  IF OverCapacity(dev, ticket, tracker)
             THEN ScoreLoop(i + 1, best_dev, best_score, ticket, tracker)
             ELSE IF score > best_score
                  THEN ScoreLoop(i + 1, dev.name, score, ticket, tracker)
                  ELSE ScoreLoop(i + 1, best_dev, best_score, ticket, tracker)

\* max written with >=: the last row with the largest key
MaxRemaining_LastOfEquals(tracker) ==
    LET i == CHOOSE k \in DOMAIN developers_df :
                 /\ \A j \in DOMAIN developers_df :
                        RemainingCapacity(developers_df[j], tracker)
                            <= RemainingCapacity(developers_df[k], tracker)
                 /\ \A j \in (k + 1)..Len(developers_df) :
                        RemainingCapacity(developers_df[j], tracker)
                            < RemainingCapacity(developers_df[k], tracker)
    IN  developers_df[i].name

\* max(names, key = remaining capacity): the first row with the largest key
MaxRemaining(tracker) ==
    LET i == CHOOSE k \in DOMAIN developers_df :
                 /\ \A j \in DOMAIN developers_df :
                        RemainingCapacity(DevRow(developers_df[j].name), tracker)
                            <= RemainingCapacity(DevRow(developers_df[k].name), tracker)
                 /\ \A j \in 1..(k - 1) :
                        RemainingCapacity(DevRow(developers_df[j].name), tracker)
                            < RemainingCapacity(DevRow(developers_df[k].name), tracker)
    IN  developers_df[i].name

smart_fallback_assignment(ticket, tracker) ==
    LET best_dev == ScoreLoop(1, NoneDev, InitialBestScore, ticket, tracker)
    IN  IF best_dev = NoneDev THEN MaxRemaining(tracker) ELSE best_dev

\* ------------------------------------------------------------------ oracle
\* What one call of client.chat.completions.create can produce: an exception
\* with a message, a text that is no JSON, or a JSON object. keys lists the
\* keys of the JSON object.
RaiseOutcome(msg) ==
    [kind |-> "raise", msg |-> msg, keys |-> {}, assigned_to |-> <<>>, reason |-> <<>>]

GarbageOutcome ==
    [kind |-> "garbage", msg |-> <<>>, keys |-> {}, assigned_to |-> <<>>, reason |-> <<>>]

JsonOutcome(keys, assigned_to, reason) ==
    [kind |-> "json", msg |-> <<>>, keys |-> keys, assigned_to |-> assigned_to,
     reason |-> reason]

OracleOutcomes ==
    { JsonOutcome({"assigned_to", "reason"}, <<"Alice">>, <<"Best skill match">>),
      JsonOutcome({"assigned_to"}, <<" ", "Bob", " ">>, <<>>),
      JsonOutcome({"assigned_to", "reason"}, <<"Zed">>, <<"Best skill match">>),
      JsonOutcome({"assigned_to", "reason"}, <<"Agent", "401">>, <<"Best skill match">>),
      GarbageOutcome,
      RaiseOutcome(<<"Error code:", "429">>),
      RaiseOutcome(<<"Error code:", "401">>),
      RaiseOutcome(<<"Request timed out">>) }

\* ------------------------------------------------------------------- state
VARIABLES
    api_key,            \* os.getenv("OPENAI_API_KEY")
    max_workers,        \* the max_workers argument
    mainpc,             \* position of assign_ticket_from_csv
    submitted,          \* number of tickets handed to executor.submit
    pc,                 \* position of each ticket's assign_single_ticket
    retry_count,        \* retry_count of each task
    hist,               \* the oracle outcomes each task has received
    prompt,             \* developer_info / assignment_summary of each task
    handler,            \* the except clause each task is in, if any
    error_msg,          \* error_msg of each task
    wait_time,          \* wait_time of each task
    assigned_name,      \* assigned_name of each task
    tickets_before,     \* assigned_tickets_before of each task
    future,             \* what each task's future holds
    tracker_lock,       \* holder of tracker_lock
    assignment_tracker, \* name -> tickets, story_points
    assignments,        \* the list the orchestrator appends to
    collected,          \* futures as_completed has yielded
    main_ticket,        \* ticket of the future being handled in the except block
    main_name,          \* assigned_name of the except block
    main_before,        \* assigned_tickets_before of the except block
    returned,           \* what assign_ticket_from_csv returned or raised
    sc_pc,              \* position of a call of smart_fallback_assignment
    sc_ticket,          \* its ticket argument
    sc_tracker,         \* its assignment_tracker argument
    sc_result,          \* what it returned
    cap_pc,             \* position of a call of calculate_developer_capacity
    cap_availability,   \* its availability argument, in tenths
    cap_workload,       \* its current_workload argument
    cap_result,         \* what it returned, in tenths
    db_assignments,     \* rows of table assignments
    db_history,         \* rows of table assignment_history, oldest first
    db_workload,        \* developers.current_workload by developer name
    db_next_id,         \* next value of the autoincrement key assignments.id
    db_outcome,         \* how the last persistence operation ended
    db_ops,             \* persistence operations called so far
    ep_pc,              \* position of the assign_tickets endpoint
    ep_filename,        \* file.filename of the upload
    ep_contents,        \* what the uploaded file holds
    ep_exception,       \* the exception the endpoint is raising, if any
    ep_run,             \* whether assign_ticket_from_csv has been called
    ep_response         \* status code of the last response of an endpoint

scorerVars == << sc_pc, sc_ticket, sc_tracker, sc_result >>

capacityVars == << cap_pc, cap_availability, cap_workload, cap_result >>

dbVars == << db_assignments, db_history, db_workload, db_next_id, db_outcome, db_ops >>

\* the request being served by assign_tickets
uploadVars == << ep_pc, ep_filename, ep_contents, ep_exception, ep_run >>

endpointVars == << uploadVars, ep_response >>

\* what the batch run leaves alone
otherVars == << roster, scorerVars, capacityVars, dbVars, endpointVars >>

batchVars == << api_key, max_workers, mainpc, submitted, pc, retry_count, hist,
                prompt, handler, error_msg, wait_time, assigned_name,
                tickets_before, future, tracker_lock, assignment_tracker,
                assignments, collected, main_ticket, main_name, main_before,
                returned >>

vars == << batchVars, otherVars >>

taskVars == << pc, retry_count, hist, prompt, handler, error_msg, wait_time, assigned_name,
               tickets_before, future >>

mainVars == << mainpc, submitted, assignments, collected, main_ticket, main_name,
               main_before, returned >>

FreeLock == 0
MainThread == 100

NoText == <<>>
NoPrompt == [developer_info |-> <<>>, assignment_summary |-> <<>>]

\* a future's content
NotDone == [state |-> "running", result |-> <<>>, exception |-> NoText]
ReturnedNone == [state |-> "none", result |-> <<>>, exception |-> NoText]
ReturnedResult(r) == [state |-> "result", result |-> <<r>>, exception |-> NoText]
RaisedException(msg) == [state |-> "exception", result |-> <<>>, exception |-> msg]

ApiKeys == {"", "your_openai_api_key_here", "sk-live"}

\* no call of smart_fallback_assignment on arguments of its own
ScorerIdle ==
    /\ sc_pc = "idle"
    /\ sc_ticket = [id |-> 0, story_points |-> 0, required_skill |-> <<>>]
    /\ sc_tracker = << >>
    /\ sc_result = NoneDev

\* no call of calculate_developer_capacity on arguments of its own
CapacityIdle ==
    /\ cap_pc = "idle"
    /\ cap_availability = 0
    /\ cap_workload = 0
    /\ cap_result = 0

\* developers and tickets that sync_developers_from_csv and
\* sync_tickets_from_csv loaded
DbDevelopers == {"Alice", "Bob"}
DbTicketIds == {1, 2}
DbStoryPoints(ticket_id) == 2 * ticket_id + 1

\* current_workload as read from the developers CSV (database_service.py line 59)
CsvWorkload(name) ==
    LET k == CHOOSE i \in DOMAIN RosterFiles[1] : RosterFiles[1][i].name = <<name>>
    IN  RosterFiles[1][k].current_workload

\* the tables after init_db.py --load-data: no assignment, no history
DbStart ==
    /\ db_assignments = {}
    /\ db_history = << >>
    /\ db_workload = [n \in DbDevelopers |-> CsvWorkload(n)]
    /\ db_next_id = 1
    /\ db_outcome = "none"
    /\ db_ops = 0

\* an exception in flight: its class and, for an HTTPException, its status_code
NoException == [type |-> "none", status_code |-> 0]

\* no request has reached an endpoint
EndpointIdle ==
    /\ ep_pc = "idle"
    /\ ep_filename = << >>
    /\ ep_contents = [kind |-> "empty", columns |-> {}]
    /\ ep_exception = NoException
    /\ ep_run = FALSE
    /\ ep_response = 0

\* assign_ticket_from_csv has not run a statement yet
BatchStart ==
    /\ mainpc = "config"
    /\ submitted = 0
    /\ pc = [t \in Tickets |-> "unsubmitted"]
    /\ retry_count = [t \in Tickets |-> 0]
    /\ hist = [t \in Tickets |-> <<>>]
    /\ prompt = [t \in Tickets |-> NoPrompt]
    /\ handler = [t \in Tickets |-> "none"]
    /\ error_msg = [t \in Tickets |-> NoText]
    /\ wait_time = [t \in Tickets |-> 0]
    /\ assigned_name = [t \in Tickets |-> NoneDev]
    /\ tickets_before = [t \in Tickets |-> 0]
    /\ future = [t \in Tickets |-> NotDone]
    /\ tracker_lock = FreeLock
    /\ assignment_tracker = << >>
    /\ assignments = << >>
    /\ collected = {}
    /\ main_ticket = 0
    /\ main_name = NoneDev
    /\ main_before = 0
    /\ returned = [state |-> "running", list |-> <<>>, exception |-> NoText]

\* no batch is run
BatchIdle ==
    /\ api_key = ""
    /\ max_workers = 1
    /\ BatchStart

Init ==
    /\ roster = 1
    /\ ScorerIdle
    /\ CapacityIdle
    /\ DbStart
    /\ EndpointIdle
    /\ api_key \in ApiKeys
    /\ max_workers \in 1..MaxWorkersBound
    /\ BatchStart

\* ------------------------------------------------------- results and reasons
\* The reason of a result: its text, and for a fallback reason the two numbers
\* formatted into it (remaining capacity in tenths, tickets already assigned).
OracleReason(text) ==
    [text |-> text, remaining_capacity |-> 0, tickets_before |-> 0]

FallbackPrefix == "Assigned via fallback algorithm after"

\* a fallback reason that says neither that fallback was used nor why
FallbackReason_NoDisclosure(cause, name, remaining, before) ==
    [text |-> name \o DevRow(name).title,
     remaining_capacity |-> remaining,
     tickets_before |-> before]

\* f"Assigned via fallback algorithm after {cause}. {name} ({title}) was selected ..."
FallbackReason(cause, name, remaining, before) ==
    [text |-> <<FallbackPrefix>> \o cause \o name \o DevRow(name).title,
     remaining_capacity |-> remaining,
     tickets_before |-> before]

\* the parse fallback carrying the text of the other fallback
ParsingCause_ApiText == <<"API error">>
ParsingCause == <<"GPT parsing error">>
ApiCause(msg) == <<"API error">> \o msg
ParallelCause(msg) == <<"parallel processing error">> \o msg

Result(ticket, name, reason) ==
    [ticket_id |-> ticket.id, assigned_to |-> name, reason |-> reason]

\* ValueError raised on an authentication failure (assigner.py line 172)
AuthenticationError(msg) ==
    <<"OpenAI API authentication error:">> \o msg \o <<"Please check your API key.">>

\* ------------------------------------------------- one attempt of the loop
\* assignment_data.get("assigned_to", "").strip()
AssignedName(r) ==
    Strip(IF "assigned_to" \in r.keys THEN r.assigned_to ELSE <<>>)

\* assignment_data.get("reason", "No reason provided")
GivenReason(r) ==
    IF "reason" \in r.keys THEN r.reason ELSE <<"No reason provided">>

\* the check of line 116 left out: any name is accepted
IsValidName_AcceptAny(name) == name = name

\* the name passes the check of line 116
IsValidName(name) == name \in RosterNames

\* What the try block of one attempt ends with: no exception, a
\* json.JSONDecodeError, or another exception with its str().
TryBlock(r) ==
    CASE r.kind = "raise" -> [exc |-> "Exception", msg |-> r.msg]
      [] r.kind = "garbage" -> [exc |-> "JSONDecodeError", msg |-> NoText]
      [] OTHER ->
            IF IsValidName(AssignedName(r))
            THEN [exc |-> "none", msg |-> NoText]
            ELSE [exc |-> "Exception",
                  msg |-> <<"Invalid developer name:">> \o AssignedName(r)]

\* "rate limit" in error_msg.lower() or "429" in error_msg
IsRateLimitMsg(msg) ==
    Contains(LowerText(msg), <<"rate limit">>) \/ Contains(msg, <<"429">>)

\* "authentication" in error_msg.lower() or "401" in error_msg or "403" in error_msg
IsAuthMsg(msg) ==
    \/ Contains(LowerText(msg), <<"authentication">>)
    \/ Contains(msg, <<"401">>)
    \/ Contains(msg, <<"403">>)

\* the test of line 173 written like the one of line 133
IsLastAttempt_LikeParse(rc) == rc >= max_retries

\* elif retry_count >= max_retries - 1 (line 173)
IsLastAttempt(rc) == rc >= max_retries - 1

\* the while condition, evaluated after a continue (assigned is False there)
LoopContinues(rc) == rc < max_retries

\* a record of which only the first write is seen
Record_TicketsOnly(tracker, name, points) ==
    [tracker EXCEPT ![name] = [tickets |-> @.tickets + 1,
                               story_points |-> @.story_points + 0 * points]]

\* a record that counts the ticket for every developer
Record_EveryDeveloper(tracker, name, points) ==
    [n \in DOMAIN tracker \cup {name} |->
        [tickets |-> tracker[n].tickets + 1,
         story_points |-> tracker[n].story_points + points]]

\* assignment_tracker[name]['tickets'] += 1; ['story_points'] += points
Record(tracker, name, points) ==
    [tracker EXCEPT ![name] = [tickets |-> @.tickets + 1,
                               story_points |-> @.story_points + points]]

\* get_developer_info_with_assignments: the per-developer lines of the prompt
get_developer_info_with_assignments(tracker) ==
    [i \in DOMAIN developers_df |->
        [name |-> developers_df[i].name,
         assigned_tickets |-> tracker[developers_df[i].name].tickets,
         assigned_points |-> tracker[developers_df[i].name].story_points,
         remaining_capacity |-> RemainingCapacity(developers_df[i], tracker)]]

\* get_assignment_summary: the developers with tickets > 0, with their stats
get_assignment_summary(tracker) ==
    [n \in {m \in DOMAIN tracker : tracker[m].tickets > 0} |-> tracker[n]]

\* tasks occupying a worker thread
Running == {t \in Tickets : pc[t] \notin {"unsubmitted", "pending", "done"}}

\* a pool that starts a thread for every work item
WorkerAvailable_Unbounded == Cardinality(Running) <= NumTickets

\* ThreadPoolExecutor(max_workers): a thread is idle or may still be started
WorkerAvailable == Cardinality(Running) < max_workers

\* --------------------------------------------------- assign_single_ticket
\* A worker thread takes the oldest queued work item.
StartTask(t) ==
    /\ pc[t] = "pending"
    /\ \A u \in Tickets : pc[u] = "pending" => t <= u
    /\ WorkerAvailable
    /\ pc' = [pc EXCEPT ![t] = "snapshot_lock"]
    /\ UNCHANGED << otherVars, api_key, max_workers, retry_count, hist, prompt, handler, error_msg,
                    wait_time, assigned_name, tickets_before, future,
                    tracker_lock, assignment_tracker >>
    /\ UNCHANGED mainVars

\* with tracker_lock: (line 58)
SnapshotAcquire(t) ==
    /\ pc[t] = "snapshot_lock"
    /\ tracker_lock = FreeLock
    /\ tracker_lock' = t
    /\ pc' = [pc EXCEPT ![t] = "snapshot"]
    /\ UNCHANGED << otherVars, api_key, max_workers, retry_count, hist, prompt, handler, error_msg,
                    wait_time, assigned_name, tickets_before, future,
                    assignment_tracker >>
    /\ UNCHANGED mainVars

\* the snapshot is taken and the lock is kept for the call that follows
Snapshot_KeepLock(t) ==
    /\ pc[t] = "snapshot"
    /\ tracker_lock = t
    /\ prompt' = [prompt EXCEPT ![t] =
            [developer_info |-> get_developer_info_with_assignments(assignment_tracker),
             assignment_summary |-> get_assignment_summary(assignment_tracker)]]
    /\ pc' = [pc EXCEPT ![t] = "call"]
    /\ UNCHANGED << otherVars, api_key, max_workers, retry_count, hist, handler, error_msg, wait_time,
                    assigned_name, tickets_before, future, tracker_lock,
                    assignment_tracker >>
    /\ UNCHANGED mainVars

\* lines 59-60, and the release of the lock
Snapshot(t) ==
    /\ pc[t] = "snapshot"
    /\ tracker_lock = t
    /\ prompt' = [prompt EXCEPT ![t] =
            [developer_info |-> get_developer_info_with_assignments(assignment_tracker),
             assignment_summary |-> get_assignment_summary(assignment_tracker)]]
    /\ tracker_lock' = FreeLock
    /\ pc' = [pc EXCEPT ![t] = "call"]
    /\ UNCHANGED << otherVars, api_key, max_workers, retry_count, hist, handler, error_msg, wait_time,
                    assigned_name, tickets_before, future, assignment_tracker >>
    /\ UNCHANGED mainVars

\* client.chat.completions.create(...) is sent (line 93)
CallOracle(t) ==
    /\ pc[t] = "call"
    /\ pc' = [pc EXCEPT ![t] = "in_flight"]
    /\ UNCHANGED << otherVars, api_key, max_workers, retry_count, hist, prompt, handler, error_msg,
                    wait_time, assigned_name, tickets_before, future,
                    tracker_lock, assignment_tracker >>
    /\ UNCHANGED mainVars

\* the call returns a JSON object naming a roster member (lines 111-117)
OracleAccepted(t) ==
    /\ pc[t] = "in_flight"
    /\ \E r \in OracleOutcomes :
        /\ TryBlock(r).exc = "none"
        /\ hist' = [hist EXCEPT ![t] = Append(@, r)]
        /\ assigned_name' = [assigned_name EXCEPT ![t] = AssignedName(r)]
    /\ pc' = [pc EXCEPT ![t] = "record_lock"]
    /\ UNCHANGED << otherVars, api_key, max_workers, retry_count, prompt, handler, error_msg, wait_time,
                    tickets_before, future, tracker_lock, assignment_tracker >>
    /\ UNCHANGED mainVars

\* with tracker_lock: (line 120)
RecordAcquire(t) ==
    /\ pc[t] = "record_lock"
    /\ tracker_lock = FreeLock
    /\ tracker_lock' = t
    /\ pc' = [pc EXCEPT ![t] = "record"]
    /\ UNCHANGED << otherVars, api_key, max_workers, retry_count, hist, prompt, handler, error_msg,
                    wait_time, assigned_name, tickets_before, future,
                    assignment_tracker >>
    /\ UNCHANGED mainVars

\* lines 121-129 and the return of line 203
RecordAccepted(t) ==
    /\ pc[t] = "record"
    /\ tracker_lock = t
    /\ assignment_tracker' =
            Record(assignment_tracker, assigned_name[t], StoryPoints(TicketRow(t)))
    /\ tracker_lock' = FreeLock
    /\ future' = [future EXCEPT ![t] =
            ReturnedResult(Result(TicketRow(t), assigned_name[t],
                                  OracleReason(GivenReason(hist[t][Len(hist[t])]))))]
    /\ prompt' = [prompt EXCEPT ![t] = NoPrompt]
    /\ pc' = [pc EXCEPT ![t] = "done"]
    /\ UNCHANGED << otherVars, api_key, max_workers, retry_count, hist, handler, error_msg, wait_time,
                    assigned_name, tickets_before >>
    /\ UNCHANGED mainVars

\* except json.JSONDecodeError (lines 131-134, 159-160)
ExceptJSONDecodeError(t) ==
    /\ pc[t] = "in_flight"
    /\ \E r \in OracleOutcomes :
        /\ TryBlock(r).exc = "JSONDecodeError"
        /\ hist' = [hist EXCEPT ![t] = Append(@, r)]
    /\ retry_count' = [retry_count EXCEPT ![t] = @ + 1]
    /\ IF retry_count'[t] >= max_retries
       THEN /\ handler' = [handler EXCEPT ![t] = "JSONDecodeError"]
            /\ pc' = [pc EXCEPT ![t] = "fallback_lock"]
            /\ UNCHANGED << future, prompt >>
       ELSE IF LoopContinues(retry_count'[t])
            THEN /\ pc' = [pc EXCEPT ![t] = "call"]
                 /\ UNCHANGED << handler, future, prompt >>
            ELSE /\ pc' = [pc EXCEPT ![t] = "done"]
                 /\ future' = [future EXCEPT ![t] = ReturnedNone]
                 /\ prompt' = [prompt EXCEPT ![t] = NoPrompt]
                 /\ UNCHANGED handler
    /\ UNCHANGED << otherVars, api_key, max_workers, error_msg, wait_time, assigned_name,
                    tickets_before, tracker_lock, assignment_tracker >>
    /\ UNCHANGED mainVars

\* the same delay before every retry
BackoffDelay_Constant(rc) == BackoffUnit + 0 * rc

\* wait_time = (retry_count + 1) * 2 (line 167)
BackoffDelay(rc) == (rc + 1) * BackoffUnit

\* except Exception, rate-limit branch up to time.sleep (lines 162-168)
ExceptRateLimit(t) ==
    /\ pc[t] = "in_flight"
    /\ \E r \in OracleOutcomes :
        /\ TryBlock(r).exc = "Exception"
        /\ IsRateLimitMsg(TryBlock(r).msg)
        /\ hist' = [hist EXCEPT ![t] = Append(@, r)]
        /\ error_msg' = [error_msg EXCEPT ![t] = TryBlock(r).msg]
    /\ wait_time' = [wait_time EXCEPT ![t] = BackoffDelay(retry_count[t])]
    /\ pc' = [pc EXCEPT ![t] = "sleep"]
    /\ UNCHANGED << otherVars, api_key, max_workers, retry_count, prompt, handler,
                    assigned_name, tickets_before, future, tracker_lock,
                    assignment_tracker >>
    /\ UNCHANGED mainVars

\* time.sleep returns; retry_count += 1; continue (lines 169-170), then the
\* while condition and, when it fails, return result (line 203)
WakeUp(t) ==
    /\ pc[t] = "sleep"
    /\ retry_count' = [retry_count EXCEPT ![t] = @ + 1]
    /\ IF LoopContinues(retry_count'[t])
       THEN /\ pc' = [pc EXCEPT ![t] = "call"]
            /\ UNCHANGED << future, prompt >>
       ELSE /\ pc' = [pc EXCEPT ![t] = "done"]
            /\ future' = [future EXCEPT ![t] = ReturnedNone]
            /\ prompt' = [prompt EXCEPT ![t] = NoPrompt]
    /\ UNCHANGED << otherVars, api_key, max_workers, hist, handler, error_msg, wait_time,
                    assigned_name, tickets_before, tracker_lock,
                    assignment_tracker >>
    /\ UNCHANGED mainVars

\* except Exception, authentication branch: raise ValueError (lines 171-172)
ExceptAuthentication(t) ==
    /\ pc[t] = "in_flight"
    /\ \E r \in OracleOutcomes :
        /\ TryBlock(r).exc = "Exception"
        /\ ~IsRateLimitMsg(TryBlock(r).msg)
        /\ IsAuthMsg(TryBlock(r).msg)
        /\ hist' = [hist EXCEPT ![t] = Append(@, r)]
        /\ error_msg' = [error_msg EXCEPT ![t] = TryBlock(r).msg]
        /\ future' = [future EXCEPT ![t] =
                RaisedException(AuthenticationError(TryBlock(r).msg))]
    /\ prompt' = [prompt EXCEPT ![t] = NoPrompt]
    /\ pc' = [pc EXCEPT ![t] = "done"]
    /\ UNCHANGED << otherVars, api_key, max_workers, retry_count, handler, wait_time,
                    assigned_name, tickets_before, tracker_lock,
                    assignment_tracker >>
    /\ UNCHANGED mainVars

\* except Exception, the last two branches (lines 173-174, 199-201)
ExceptOther(t) ==
    /\ pc[t] = "in_flight"
    /\ \E r \in OracleOutcomes :
        /\ TryBlock(r).exc = "Exception"
        /\ ~IsRateLimitMsg(TryBlock(r).msg)
        /\ ~IsAuthMsg(TryBlock(r).msg)
        /\ hist' = [hist EXCEPT ![t] = Append(@, r)]
        /\ error_msg' = [error_msg EXCEPT ![t] = TryBlock(r).msg]
    /\ IF IsLastAttempt(retry_count[t])
       THEN /\ handler' = [handler EXCEPT ![t] = "Exception"]
            /\ pc' = [pc EXCEPT ![t] = "fallback_lock"]
            /\ UNCHANGED << retry_count, future, prompt >>
       ELSE /\ retry_count' = [retry_count EXCEPT ![t] = @ + 1]
            /\ IF LoopContinues(retry_count'[t])
               THEN /\ pc' = [pc EXCEPT ![t] = "call"]
                    /\ UNCHANGED << handler, future, prompt >>
               ELSE /\ pc' = [pc EXCEPT ![t] = "done"]
                    /\ future' = [future EXCEPT ![t] = ReturnedNone]
                    /\ prompt' = [prompt EXCEPT ![t] = NoPrompt]
                    /\ UNCHANGED handler
    /\ UNCHANGED << otherVars, api_key, max_workers, wait_time, assigned_name,
                    tickets_before, tracker_lock, assignment_tracker >>
    /\ UNCHANGED mainVars

\* with tracker_lock: of an in-task fallback (lines 135, 175)
FallbackAcquire(t) ==
    /\ pc[t] = "fallback_lock"
    /\ tracker_lock = FreeLock
    /\ tracker_lock' = t
    /\ pc' = [pc EXCEPT ![t] = "fallback"]
    /\ UNCHANGED << otherVars, api_key, max_workers, retry_count, hist, prompt, handler,
                    error_msg, wait_time, assigned_name, tickets_before, future,
                    assignment_tracker >>
    /\ UNCHANGED mainVars

\* the scorer is given the tracker as it was when the batch began
FallbackChoose_StaleScorer(t) ==
    /\ pc[t] = "fallback"
    /\ tracker_lock = t
    /\ LET name == smart_fallback_assignment(TicketRow(t),
                       [n \in RosterNames |-> [tickets |-> 0, story_points |-> 0]])
       IN  /\ assigned_name' = [assigned_name EXCEPT ![t] = name]
           /\ tickets_before' =
                  [tickets_before EXCEPT ![t] = assignment_tracker[name].tickets]
           /\ assignment_tracker' =
                  Record(assignment_tracker, name, StoryPoints(TicketRow(t)))
    /\ tracker_lock' = FreeLock
    /\ pc' = [pc EXCEPT ![t] = "fallback_reason"]
    /\ UNCHANGED << otherVars, api_key, max_workers, retry_count, hist, prompt, handler,
                    error_msg, wait_time, future >>
    /\ UNCHANGED mainVars

\* the locked block of an in-task fallback (lines 136-139, 176-179)
FallbackChoose(t) ==
    /\ pc[t] = "fallback"
    /\ tracker_lock = t
    /\ LET name == smart_fallback_assignment(TicketRow(t), assignment_tracker)
       IN  /\ assigned_name' = [assigned_name EXCEPT ![t] = name]
           /\ tickets_before' =
                  [tickets_before EXCEPT ![t] = assignment_tracker[name].tickets]
           /\ assignment_tracker' =
                  Record(assignment_tracker, name, StoryPoints(TicketRow(t)))
    /\ tracker_lock' = FreeLock
    /\ pc' = [pc EXCEPT ![t] = "fallback_reason"]
    /\ UNCHANGED << otherVars, api_key, max_workers, retry_count, hist, prompt, handler,
                    error_msg, wait_time, future >>
    /\ UNCHANGED mainVars

\* what the reason reports as remaining capacity: the tracker is read again
\* after the lock was released (lines 141-144, 181-184)
ReportedRemaining(name, ticket, tracker) ==
    calculate_developer_capacity(DevRow(name).availability,
                                 DevRow(name).current_workload)
        - 10 * (tracker[name].story_points - StoryPoints(ticket))

\* the rest of an in-task fallback (lines 140-158, 180-198) and return result
FallbackResult(t) ==
    /\ pc[t] = "fallback_reason"
    /\ LET remaining ==
               ReportedRemaining(assigned_name[t], TicketRow(t), assignment_tracker)
           cause == IF handler[t] = "JSONDecodeError"
                    THEN ParsingCause
                    ELSE ApiCause(error_msg[t])
       IN  future' = [future EXCEPT ![t] =
               ReturnedResult(Result(TicketRow(t), assigned_name[t],
                   FallbackReason(cause, assigned_name[t], remaining,
                                  tickets_before[t])))]
    /\ prompt' = [prompt EXCEPT ![t] = NoPrompt]
    /\ pc' = [pc EXCEPT ![t] = "done"]
    /\ UNCHANGED << otherVars, api_key, max_workers, retry_count, hist, handler, error_msg,
                    wait_time, assigned_name, tickets_before, tracker_lock,
                    assignment_tracker >>
    /\ UNCHANGED mainVars

\* ------------------------------------------------- assign_ticket_from_csv
\* get_openai_client raises on a missing or placeholder key (lines 20-27)
\* only the missing key is refused
KeyRejected_MissingOnly(key) == key = ""

\* get_openai_client raises ValueError (lines 23-26)
KeyRejected(key) == key = "" \/ key = "your_openai_api_key_here"

ConfigurationError(key) ==
    IF key = ""
    THEN <<"OPENAI_API_KEY environment variable is not set.">>
    ELSE <<"Please update your .env file with a valid OpenAI API key.">>

\* a tracker that gets its entries when they are first written
InitialTracker_Lazy == << >>

\* {name: {'tickets': 0, 'story_points': 0} for name in developers_df['name'].values}
InitialTracker == [n \in RosterNames |-> [tickets |-> 0, story_points |-> 0]]

\* lines 42-51: the client is built, then the tracker is set to zeros
Configure ==
    /\ mainpc = "config"
    /\ IF KeyRejected(api_key)
       THEN /\ mainpc' = "raised"
            /\ returned' = [state |-> "raised", list |-> <<>>,
                            exception |-> ConfigurationError(api_key)]
            /\ UNCHANGED assignment_tracker
       ELSE /\ mainpc' = "submit"
            /\ assignment_tracker' = InitialTracker
            /\ UNCHANGED returned
    /\ UNCHANGED << otherVars, api_key, max_workers, submitted, assignments, collected,
                    main_ticket, main_name, main_before, tracker_lock >>
    /\ UNCHANGED taskVars

\* executor.submit for the next row of ticket_list (line 211)
Submit ==
    /\ mainpc = "submit"
    /\ submitted < NumTickets
    /\ submitted' = submitted + 1
    /\ pc' = [pc EXCEPT ![submitted + 1] = "pending"]
    /\ mainpc' = IF submitted + 1 = NumTickets THEN "collect" ELSE "submit"
    /\ UNCHANGED << otherVars, api_key, max_workers, retry_count, hist, prompt, handler,
                    error_msg, wait_time, assigned_name, tickets_before, future,
                    tracker_lock, assignment_tracker, assignments, collected,
                    main_ticket, main_name, main_before, returned >>

\* as_completed yields a finished future whose result() returns (lines 214-218)
CollectResult(t) ==
    /\ mainpc = "collect"
    /\ pc[t] = "done"
    /\ t \notin collected
    /\ future[t].state \in {"result", "none"}
    /\ assignments' = IF future[t].state = "result"
                      THEN Append(assignments, future[t].result[1])
                      ELSE assignments
    /\ collected' = collected \cup {t}
    /\ UNCHANGED << otherVars, api_key, max_workers, mainpc, submitted, main_ticket,
                    main_name, main_before, returned, tracker_lock,
                    assignment_tracker >>
    /\ UNCHANGED taskVars

\* the exception of the future is raised again to the caller
CollectException_Reraise(t) ==
    /\ mainpc = "collect"
    /\ pc[t] = "done"
    /\ t \notin collected
    /\ future[t].state = "exception"
    /\ mainpc' = "raised"
    /\ returned' = [state |-> "raised", list |-> <<>>, exception |-> future[t].exception]
    /\ UNCHANGED << otherVars, api_key, max_workers, submitted, assignments, collected,
                    main_ticket, main_name, main_before, tracker_lock,
                    assignment_tracker >>
    /\ UNCHANGED taskVars

\* as_completed yields a future whose result() raises (lines 219-222)
CollectException(t) ==
    /\ mainpc = "collect"
    /\ pc[t] = "done"
    /\ t \notin collected
    /\ future[t].state = "exception"
    /\ main_ticket' = t
    /\ mainpc' = "backstop_lock"
    /\ UNCHANGED << otherVars, api_key, max_workers, submitted, assignments, collected,
                    main_name, main_before, returned, tracker_lock,
                    assignment_tracker >>
    /\ UNCHANGED taskVars

\* with tracker_lock: of the except block (line 224)
BackstopAcquire ==
    /\ mainpc = "backstop_lock"
    /\ tracker_lock = FreeLock
    /\ tracker_lock' = MainThread
    /\ mainpc' = "backstop"
    /\ UNCHANGED << otherVars, api_key, max_workers, submitted, assignments, collected,
                    main_ticket, main_name, main_before, returned,
                    assignment_tracker >>
    /\ UNCHANGED taskVars

\* the locked block of the except block (lines 225-228)
BackstopChoose ==
    /\ mainpc = "backstop"
    /\ tracker_lock = MainThread
    /\ LET name == smart_fallback_assignment(TicketRow(main_ticket),
                                             assignment_tracker)
       IN  /\ main_name' = name
           /\ main_before' = assignment_tracker[name].tickets
           /\ assignment_tracker' =
                  Record(assignment_tracker, name, StoryPoints(TicketRow(main_ticket)))
    /\ tracker_lock' = FreeLock
    /\ mainpc' = "backstop_reason"
    /\ UNCHANGED << otherVars, api_key, max_workers, submitted, assignments, collected,
                    main_ticket, returned >>
    /\ UNCHANGED taskVars

\* the except block ends without an append
BackstopResult_Drop ==
    /\ mainpc = "backstop_reason"
    /\ collected' = collected \cup {main_ticket}
    /\ mainpc' = "collect"
    /\ UNCHANGED << otherVars, api_key, max_workers, submitted, main_ticket, main_name,
                    main_before, returned, tracker_lock, assignment_tracker,
                    assignments >>
    /\ UNCHANGED taskVars

\* the rest of the except block: the reason and the append (lines 229-239)
BackstopResult ==
    /\ mainpc = "backstop_reason"
    /\ LET remaining ==
               ReportedRemaining(main_name, TicketRow(main_ticket), assignment_tracker)
       IN  assignments' = Append(assignments,
               Result(TicketRow(main_ticket), main_name,
                   FallbackReason(ParallelCause(future[main_ticket].exception),
                                  main_name, remaining, main_before)))
    /\ collected' = collected \cup {main_ticket}
    /\ mainpc' = "collect"
    /\ UNCHANGED << otherVars, api_key, max_workers, submitted, main_ticket, main_name,
                    main_before, returned, tracker_lock, assignment_tracker >>
    /\ UNCHANGED taskVars

\* list.sort(key = ticket_id): insertion of x into a sorted list, after equals
RECURSIVE InsertSorted(_, _)
InsertSorted(x, list) ==
    IF list = <<>> THEN <<x>>
    ELSE IF x.ticket_id < Head(list).ticket_id
         THEN <<x>> \o list
         ELSE <<Head(list)>> \o InsertSorted(x, Tail(list))

\* the list left in completion order
SortByTicketId_CompletionOrder(list) == list

RECURSIVE SortByTicketId(_)
SortByTicketId(list) ==
    IF list = <<>> THEN <<>>
    ELSE InsertSorted(list[Len(list)], SortByTicketId(SubSeq(list, 1, Len(list) - 1)))

\* every future was yielded: the executor is left, the list sorted and
\* returned (lines 241-244)
Return ==
    /\ mainpc = "collect"
    /\ collected = Tickets
    /\ assignments' = SortByTicketId(assignments)
    /\ returned' = [state |-> "returned", list |-> assignments', exception |-> NoText]
    /\ mainpc' = "returned"
    /\ UNCHANGED << otherVars, api_key, max_workers, submitted, collected, main_ticket,
                    main_name, main_before, tracker_lock, assignment_tracker >>
    /\ UNCHANGED taskVars

\* ---------------------------------------------------------- specification
TaskStep(t) ==
    \/ StartTask(t)
    \/ SnapshotAcquire(t)
    \/ Snapshot(t)
    \/ CallOracle(t)
    \/ OracleAccepted(t)
    \/ RecordAcquire(t)
    \/ RecordAccepted(t)
    \/ ExceptJSONDecodeError(t)
    \/ ExceptRateLimit(t)
    \/ WakeUp(t)
    \/ ExceptAuthentication(t)
    \/ ExceptOther(t)
    \/ FallbackAcquire(t)
    \/ FallbackChoose(t)
    \/ FallbackResult(t)

MainStep ==
    \/ Configure
    \/ Submit
    \/ \E t \in Tickets : CollectResult(t)
    \/ \E t \in Tickets : CollectException(t)
    \/ BackstopAcquire
    \/ BackstopChoose
    \/ BackstopResult
    \/ Return

Next == MainStep \/ \E t \in Tickets : TaskStep(t)

Spec == Init /\ [][Next]_vars

\* the batch run with the roster whose developers have room for one ticket each
TightRoster == Len(RosterFiles)

TightInit ==
    /\ roster = TightRoster
    /\ ScorerIdle
    /\ CapacityIdle
    /\ DbStart
    /\ EndpointIdle
    /\ api_key \in ApiKeys
    /\ max_workers \in 1..MaxWorkersBound
    /\ BatchStart

SpecTight == TightInit /\ [][Next]_vars

\* the batch run under the assumptions of termination: every thread that can
\* take a step takes one (an oracle call returns or raises, a sleep ends), and
\* a thread that can take the lock again and again gets it
Fairness ==
    /\ WF_vars(MainStep)
    /\ \A t \in Tickets : SF_vars(TaskStep(t))

SpecLive == Init /\ [][Next]_vars /\ Fairness

\* ------------------------------------- smart_fallback_assignment by itself
\* in-batch tallies and tickets the scorer is tried on
TrackerEntries ==
    { [tickets |-> n, story_points |-> p] : n \in {0, 13, 14}, p \in {0, 2, 20} }

ScorerTickets ==
    { [id |-> 1, story_points |-> p, required_skill |-> k] :
        p \in {0, 3, 25}, k \in {<<"python">>, <<"go">>, <<>>} }

ScorerInit ==
    /\ roster \in DOMAIN RosterFiles
    /\ sc_pc = "call"
    /\ sc_ticket \in ScorerTickets
    /\ sc_tracker \in [RosterNames -> TrackerEntries]
    /\ sc_result = NoneDev
    /\ CapacityIdle
    /\ DbStart
    /\ EndpointIdle
    /\ BatchIdle

\* smart_fallback_assignment(developers_df, ticket, assignment_tracker) returns
ScorerReturns ==
    /\ sc_pc = "call"
    /\ sc_result' = smart_fallback_assignment(sc_ticket, sc_tracker)
    /\ sc_pc' = "returned"
    /\ UNCHANGED << roster, sc_ticket, sc_tracker, capacityVars, dbVars, endpointVars,
                    batchVars >>

ScorerNext == ScorerReturns

SpecScorer == ScorerInit /\ [][ScorerNext]_vars

\* ---------------------------------- calculate_developer_capacity by itself
\* largest current_workload tried
MaxWorkload == 25

CapacityInit ==
    /\ roster = 1
    /\ cap_pc = "call"
    /\ cap_availability \in 0..10
    /\ cap_workload \in 0..MaxWorkload
    /\ cap_result = 0
    /\ ScorerIdle
    /\ DbStart
    /\ EndpointIdle
    /\ BatchIdle

\* calculate_developer_capacity(availability, current_workload) returns
CapacityReturns ==
    /\ cap_pc = "call"
    /\ cap_result' = calculate_developer_capacity(cap_availability, cap_workload)
    /\ cap_pc' = "returned"
    /\ UNCHANGED << roster, cap_availability, cap_workload, scorerVars, dbVars,
                    endpointVars, batchVars >>

CapacityNext == CapacityReturns

SpecCapacity == CapacityInit /\ [][CapacityNext]_vars

\* ------------------------------------------------------ persistence layer
\* largest number of persistence operations in one behaviour
MaxDbOps == 4

\* None in a nullable column
None == "None"

AssignmentRow(id, ticket_id, assigned_to, status) ==
    [id |-> id, ticket_id |-> ticket_id, assigned_to |-> assigned_to, status |-> status]

HistoryRow(assignment_id, ticket_id, previous_developer, new_developer, action) ==
    [assignment_id |-> assignment_id, ticket_id |-> ticket_id,
     previous_developer |-> previous_developer, new_developer |-> new_developer,
     action |-> action]

\* the database as one value
Db(rows, history, workload, next_id, outcome) ==
    [assignments |-> rows, history |-> history, workload |-> workload,
     next_id |-> next_id, outcome |-> outcome]

\* UniqueConstraint('ticket_id', 'status') would be broken by these rows
UniqueViolated(rows) ==
    \E r1, r2 \in rows :
        /\ r1.id # r2.id
        /\ r1.ticket_id = r2.ticket_id
        /\ r1.status = r2.status

\* UPDATE assignments SET status = 'removed' WHERE ticket_id = .. AND status = 'active'
Deactivate(rows, ticket_id) ==
    { IF r.ticket_id = ticket_id /\ r.status = "active"
      THEN [r EXCEPT !.status = "removed"]
      ELSE r : r \in rows }

\* a row is inserted, nothing is deactivated and no constraint is looked at
CreateOutcome_InsertOnly(rows, id, ticket_id, assigned_to) ==
    [raised |-> FALSE, rows |-> rows \cup {AssignmentRow(id, ticket_id, assigned_to, "active")}]

\* the UPDATE and the INSERT of create_assignment under the unique constraint
CreateOutcome(rows, id, ticket_id, assigned_to) ==
    LET deactivated == Deactivate(rows, ticket_id)
    IN  IF UniqueViolated(deactivated)
        THEN [raised |-> TRUE, rows |-> rows]
        ELSE [raised |-> FALSE,
              rows |-> deactivated \cup {AssignmentRow(id, ticket_id, assigned_to, "active")}]

\* story points of the tickets of a set of assignment rows
RECURSIVE TotalStoryPoints(_)
TotalStoryPoints(rows) ==
    IF rows = {} THEN 0
    ELSE LET r == CHOOSE x \in rows : TRUE
         IN  DbStoryPoints(r.ticket_id) + TotalStoryPoints(rows \ {r})

get_assignments(rows, status, developer_name) ==
    {r \in rows : r.status = status /\ r.assigned_to = developer_name}

\* update_developer_workload for every developer of a set
UpdateWorkloads(d, names) ==
    [d EXCEPT !.workload =
        [n \in DbDevelopers |->
            IF n \in names
            THEN TotalStoryPoints(get_assignments(d.assignments, "active", n))
            ELSE d.workload[n]]]

update_developer_workload(d, developer_name) == UpdateWorkloads(d, {developer_name})

create_assignment(d, ticket_id, assigned_to, update_workload) ==
    LET out == CreateOutcome(d.assignments, d.next_id, ticket_id, assigned_to)
        created == [d EXCEPT !.assignments = out.rows,
                             !.next_id = d.next_id + 1,
                             !.history = Append(d.history,
                                 HistoryRow(d.next_id, ticket_id, None, assigned_to, "created")),
                             !.outcome = "ok"]
    IN  IF out.raised THEN [d EXCEPT !.outcome = "IntegrityError"]
        ELSE IF update_workload THEN update_developer_workload(created, assigned_to)
        ELSE created

\* the for loop of save_assignments_batch: an exception ends it
RECURSIVE BatchLoop(_, _)
BatchLoop(d, assignments_data) ==
    IF assignments_data = << >> THEN d
    ELSE LET item == Head(assignments_data)
             d1 == create_assignment(d, item.ticket_id, item.assigned_to, FALSE)
         IN  IF d1.outcome = "IntegrityError" THEN d1
             ELSE BatchLoop(d1, Tail(assignments_data))

save_assignments_batch(d, assignments_data) ==
    LET d1 == BatchLoop([d EXCEPT !.outcome = "ok"], assignments_data)
        developers_to_update ==
            {assignments_data[i].assigned_to : i \in DOMAIN assignments_data}
    IN  IF d1.outcome = "IntegrityError" THEN d1
        ELSE UpdateWorkloads(d1, developers_to_update)

get_assignment_by_id(rows, assignment_id) == {r \in rows : r.id = assignment_id}

reassign_ticket(d, assignment_id, new_developer) ==
    IF get_assignment_by_id(d.assignments, assignment_id) = {}
    THEN [d EXCEPT !.outcome = "not_found"]
    ELSE LET assignment == CHOOSE r \in d.assignments : r.id = assignment_id
             previous_developer == assignment.assigned_to
             d1 == [d EXCEPT
                      !.history = Append(d.history,
                          HistoryRow(assignment.id, assignment.ticket_id,
                                     previous_developer, new_developer, "reassigned")),
                      !.assignments = (d.assignments \ {assignment})
                          \cup {[assignment EXCEPT !.assigned_to = new_developer]},
                      !.outcome = "ok"]
         IN  UpdateWorkloads(d1, {previous_developer, new_developer})

remove_assignment(d, assignment_id) ==
    IF get_assignment_by_id(d.assignments, assignment_id) = {}
    THEN [d EXCEPT !.outcome = "not_found"]
    ELSE LET assignment == CHOOSE r \in d.assignments : r.id = assignment_id
             logged == [d EXCEPT
                          !.history = Append(d.history,
                              HistoryRow(assignment.id, assignment.ticket_id,
                                         assignment.assigned_to, None, "removed"))]
             rows == (d.assignments \ {assignment})
                         \cup {[assignment EXCEPT !.status = "removed"]}
         IN  IF UniqueViolated(rows)
             THEN [logged EXCEPT !.outcome = "IntegrityError"]
             ELSE update_developer_workload(
                      [logged EXCEPT !.assignments = rows, !.outcome = "ok"],
                      assignment.assigned_to)

\* db.delete(assignment) with the cascade of Assignment.history
reset_all_assignments(d) ==
    LET active_assignments == {r \in d.assignments : r.status = "active"}
        deleted_ids == {r.id : r \in active_assignments}
        developers_to_update == {r.assigned_to : r \in active_assignments}
        d1 == [d EXCEPT
                 !.assignments = d.assignments \ active_assignments,
                 !.history = SelectSeq(d.history,
                                 LAMBDA h : h.assignment_id \notin deleted_ids),
                 !.outcome = "ok"]
    IN  UpdateWorkloads(d1, developers_to_update)

\* raise HTTPException(status_code=..)
HTTPException(status_code) == [type |-> "HTTPException", status_code |-> status_code]

\* an exception of another class is raised
Raised(type) == [type |-> type, status_code |-> 0]

\* except Exception as e: raise HTTPException(status_code=500, ..): every
\* exception raised in the try block is an instance of Exception, the
\* HTTPException the block raised itself included
ExceptException(e) == IF e.type # "none" THEN HTTPException(500) ELSE e

\* the status of the response: that of the HTTPException that leaves the
\* endpoint, 200 when the endpoint returns
ResponseStatus(e) ==
    IF e.type = "HTTPException" THEN e.status_code
    ELSE IF e.type = "none" THEN 200
    ELSE 500

\* the try block of an endpoint whose service call left the database as d:
\* the call raised, or returned None, or returned the assignment
AssignmentTryBlock(d) ==
    IF d.outcome = "IntegrityError" THEN Raised("IntegrityError")
    ELSE IF d.outcome = "not_found" THEN HTTPException(404)
    ELSE NoException

reassign_ticket_endpoint(d) == ResponseStatus(ExceptException(AssignmentTryBlock(d)))

remove_assignment_endpoint(d) == ResponseStatus(ExceptException(AssignmentTryBlock(d)))

DbNow == Db(db_assignments, db_history, db_workload, db_next_id, db_outcome)

\* the operation is over and the database is d
DbBecomes(d) ==
    /\ db_ops < MaxDbOps
    /\ db_ops' = db_ops + 1
    /\ db_assignments' = d.assignments
    /\ db_history' = d.history
    /\ db_workload' = d.workload
    /\ db_next_id' = d.next_id
    /\ db_outcome' = d.outcome
    /\ UNCHANGED << roster, scorerVars, capacityVars, uploadVars, batchVars >>

AssignmentData ==
    { [ticket_id |-> t, assigned_to |-> n] : t \in DbTicketIds, n \in DbDevelopers }

\* the lists save_assignments_batch is called with
BatchInputs == { <<a, b>> : a \in AssignmentData, b \in AssignmentData }

CreateAssignment ==
    \E a \in AssignmentData : \E update_workload \in BOOLEAN :
        /\ DbBecomes(create_assignment(DbNow, a.ticket_id, a.assigned_to, update_workload))
        /\ UNCHANGED ep_response

SaveAssignmentsBatch ==
    \E assignments_data \in BatchInputs :
        /\ DbBecomes(save_assignments_batch(DbNow, assignments_data))
        /\ UNCHANGED ep_response

\* PUT /assignments/{assignment_id}/reassign/
ReassignTicket ==
    \E id \in 1..db_next_id : \E n \in DbDevelopers :
        LET d == reassign_ticket(DbNow, id, n)
        IN  /\ DbBecomes(d)
            /\ ep_response' = reassign_ticket_endpoint(d)

\* DELETE /assignments/{assignment_id}/
RemoveAssignment ==
    \E id \in 1..db_next_id :
        LET d == remove_assignment(DbNow, id)
        IN  /\ DbBecomes(d)
            /\ ep_response' = remove_assignment_endpoint(d)

ResetAllAssignments ==
    /\ DbBecomes(reset_all_assignments(DbNow))
    /\ UNCHANGED ep_response

DbInit ==
    /\ roster = 1
    /\ ScorerIdle
    /\ CapacityIdle
    /\ BatchIdle
    /\ EndpointIdle
    /\ DbStart

DbNext ==
    \/ CreateAssignment
    \/ SaveAssignmentsBatch
    \/ ReassignTicket
    \/ RemoveAssignment
    \/ ResetAllAssignments

SpecDb == DbInit /\ [][DbNext]_vars

\* ------------------------------------------- the assign_tickets endpoint
\* suffix is at the end of s: str.endswith
EndsWith(s, suffix) ==
    /\ Len(s) >= Len(suffix)
    /\ SubSeq(s, Len(s) - Len(suffix) + 1, Len(s)) = suffix

\* '.csv', character by character
CsvSuffix == << ".", "c", "s", "v" >>

\* file names of uploads
FileNames ==
    { << "t", ".", "c", "s", "v" >>,
      << "t", ".", "t", "x", "t" >>,
      << "t", ".", "C", "S", "V" >>,
      << "t", ".", "c", "s", "v", ".", "b", "a", "k" >>,
      << "c", "s", "v" >>,
      << >> }

required_columns == {"id", "description", "story_points", "required_skill"}

\* what an upload holds: nothing, bytes that are not UTF-8, or a table with
\* some columns
Uploads ==
    { [kind |-> "empty", columns |-> {}], [kind |-> "undecodable", columns |-> {}] }
        \cup { [kind |-> "csv", columns |-> c] : c \in SUBSET required_columns }
        \cup { [kind |-> "csv", columns |-> required_columns \cup {"priority"}] }

\* how a call of assign_ticket_from_csv by the endpoint ends
RunOutcomes ==
    { [kind |-> "return", exc |-> "none", msg |-> NoText] }
        \cup { [kind |-> "raise", exc |-> "ValueError", msg |-> ConfigurationError(k)] :
                   k \in {k \in ApiKeys : KeyRejected(k)} }
        \cup { [kind |-> "raise", exc |-> "Exception", msg |-> m] :
                   m \in { << "Rate Limit", "exceeded" >>, << "Error code:", "429" >>,
                           << "Authentication", "failed" >>, << "Error code:", "403" >>,
                           << "developers_expanded.csv", "not found" >> } }

\* the except clauses around the call of assign_ticket_from_csv
ProcessHandlers(out) ==
    IF out.kind = "return" THEN NoException
    ELSE IF out.exc = "ValueError" THEN HTTPException(500)
    ELSE IF IsRateLimitMsg(out.msg) THEN HTTPException(429)
    ELSE IF IsAuthMsg(out.msg) THEN HTTPException(401)
    ELSE HTTPException(500)

\* the except clauses of the endpoint: pd.errors.EmptyDataError first, then
\* Exception
EndpointHandlers(e) ==
    IF e.type = "EmptyDataError" THEN HTTPException(400)
    ELSE ExceptException(e)

\* what the endpoint leaves alone
besideUpload == << roster, scorerVars, capacityVars, dbVars, batchVars >>

\* a request arrives
ReceiveUpload ==
    /\ ep_pc \in {"idle", "responded"}
    /\ ep_filename' \in FileNames
    /\ ep_contents' \in Uploads
    /\ ep_exception' = NoException
    /\ ep_run' = FALSE
    /\ ep_response' = 0
    /\ ep_pc' = "validate_type"
    /\ UNCHANGED besideUpload

\* if not file.filename.endswith('.csv'): raise HTTPException(status_code=400, ..)
ValidateFileType ==
    /\ ep_pc = "validate_type"
    /\ IF EndsWith(ep_filename, CsvSuffix)
       THEN /\ ep_pc' = "read"
            /\ UNCHANGED ep_exception
       ELSE /\ ep_pc' = "except"
            /\ ep_exception' = HTTPException(400)
    /\ UNCHANGED << ep_filename, ep_contents, ep_run, ep_response, besideUpload >>

\* contents = await file.read(); df = pd.read_csv(io.StringIO(contents.decode('utf-8')))
ReadCsv ==
    /\ ep_pc = "read"
    /\ IF ep_contents.kind = "undecodable"
       THEN /\ ep_pc' = "except"
            /\ ep_exception' = Raised("UnicodeDecodeError")
       ELSE IF ep_contents.kind = "empty"
       THEN /\ ep_pc' = "except"
            /\ ep_exception' = Raised("EmptyDataError")
       ELSE /\ ep_pc' = "validate_columns"
            /\ UNCHANGED ep_exception
    /\ UNCHANGED << ep_filename, ep_contents, ep_run, ep_response, besideUpload >>

\* if missing_columns: raise HTTPException(status_code=400, ..)
ValidateColumns ==
    /\ ep_pc = "validate_columns"
    /\ LET missing_columns == required_columns \ ep_contents.columns
       IN  IF missing_columns # {}
           THEN /\ ep_pc' = "except"
                /\ ep_exception' = HTTPException(400)
           ELSE /\ ep_pc' = "process"
                /\ UNCHANGED ep_exception
    /\ UNCHANGED << ep_filename, ep_contents, ep_run, ep_response, besideUpload >>

\* assign_ticket_from_csv(df) is called
CallAssign ==
    /\ ep_pc = "process"
    /\ ep_run' = TRUE
    /\ ep_pc' = "running"
    /\ UNCHANGED << ep_filename, ep_contents, ep_exception, ep_response, besideUpload >>

\* assign_ticket_from_csv(df) returns or raises
AssignEnds ==
    /\ ep_pc = "running"
    /\ \E out \in RunOutcomes :
           /\ ep_exception' = ProcessHandlers(out)
           /\ ep_pc' = IF out.kind = "return" THEN "return" ELSE "except"
    /\ UNCHANGED << ep_filename, ep_contents, ep_run, ep_response, besideUpload >>

\* the exception reaches the except clauses of the endpoint
HandleException ==
    /\ ep_pc = "except"
    /\ ep_exception' = EndpointHandlers(ep_exception)
    /\ ep_pc' = "return"
    /\ UNCHANGED << ep_filename, ep_contents, ep_run, ep_response, besideUpload >>

\* the endpoint returns or an HTTPException leaves it: the response is sent
Respond ==
    /\ ep_pc = "return"
    /\ ep_response' = ResponseStatus(ep_exception)
    /\ ep_pc' = "responded"
    /\ UNCHANGED << ep_filename, ep_contents, ep_exception, ep_run, besideUpload >>

EndpointInit ==
    /\ roster = 1
    /\ ScorerIdle
    /\ CapacityIdle
    /\ BatchIdle
    /\ DbStart
    /\ EndpointIdle

EndpointNext ==
    \/ ReceiveUpload
    \/ ValidateFileType
    \/ ReadCsv
    \/ ValidateColumns
    \/ CallAssign
    \/ AssignEnds
    \/ HandleException
    \/ Respond

SpecEndpoint == EndpointInit /\ [][EndpointNext]_vars

\* ================================================================ claims
\* The classes of oracle outcomes the claims speak of.
IsSuccess(r) == r.kind = "json" /\ AssignedName(r) \in RosterNames
IsMalformedJson(r) == r.kind = "garbage"
IsUnknownAssignee(r) == r.kind = "json" /\ AssignedName(r) \notin RosterNames
IsRateLimitError(r) == r.kind = "raise" /\ IsRateLimitMsg(r.msg)
IsAuthError(r) == r.kind = "raise" /\ ~IsRateLimitMsg(r.msg) /\ IsAuthMsg(r.msg)
IsUnknownError(r) ==
    r.kind = "raise" /\ ~IsRateLimitMsg(r.msg) /\ ~IsAuthMsg(r.msg)

Done(t) == pc[t] = "done"
LastOutcome(t) == hist[t][Len(hist[t])]
Batch == returned.state = "returned"
InputIds == {TicketRow(t).id : t \in Tickets}
OutputIds == {returned.list[i].ticket_id : i \in DOMAIN returned.list}

\* oracle calls sent so far for ticket t
CallsMade(t) == Len(hist[t]) + (IF pc[t] = "in_flight" THEN 1 ELSE 0)

IsFallbackReason(reason) == reason.text # <<>> /\ reason.text[1] = FallbackPrefix

\* the task of t returned a result chosen by the Fallback Scorer
ReturnedFallback(t) ==
    /\ future[t].state = "result"
    /\ IsFallbackReason(future[t].result[1].reason)
    /\ future[t].result[1].ticket_id = TicketRow(t).id

\* the entries of the orchestrator's list for ticket t
EntriesOf(t) ==
    {i \in DOMAIN assignments : assignments[i].ticket_id = TicketRow(t).id}

\* C1: when assign_ticket_from_csv returns a list, the list has exactly one
\* entry per input ticket: as many entries as tickets, and the ticket_ids of
\* the entries are the ids of the tickets, none twice.
C1_OneEntryPerTicket ==
    Batch =>
        /\ Len(returned.list) = NumTickets
        /\ OutputIds = InputIds
        /\ \A i, j \in DOMAIN returned.list :
               returned.list[i].ticket_id = returned.list[j].ticket_id => i = j

\* C2: a task whose attempts end with the retry budget used up by a
\* rate-limit error returns a fallback result for its ticket; it never
\* returns without a result.
C2_RateLimitExhaustionFallsBack ==
    \A t \in Tickets :
        (Done(t) /\ Len(hist[t]) = max_retries /\ IsRateLimitError(LastOutcome(t)))
            => ReturnedFallback(t)

\* C3: if the oracle call of any ticket failed with an authentication error,
\* assign_ticket_from_csv does not return a result list.
C3_AuthErrorPropagates ==
    Batch => \A t \in Tickets : \A i \in DOMAIN hist[t] : ~IsAuthError(hist[t][i])

\* C4: once the oracle call of the first ticket has failed with an
\* authentication error, no oracle call of any other ticket is started.
C4_NoCallAfterAuthFailure ==
    [][(hist[1] # <<>> /\ IsAuthError(hist[1][1]))
          => \A t \in Tickets : ~(pc[t] = "call" /\ pc'[t] = "in_flight")]_vars

\* C5: every entry the orchestrator holds or returns is assigned to a
\* developer of the roster, whichever path produced it.
C5_AssigneeInRoster ==
    /\ \A i \in DOMAIN assignments : assignments[i].assigned_to \in RosterNames
    /\ \A i \in DOMAIN returned.list : returned.list[i].assigned_to \in RosterNames
    /\ \A t \in Tickets :
           future[t].state = "result"
               => future[t].result[1].assigned_to \in RosterNames

C5_Witness ==
    /\ Batch
    /\ \E i, j \in DOMAIN returned.list :
           /\ ~IsFallbackReason(returned.list[i].reason)
           /\ IsFallbackReason(returned.list[j].reason)
           /\ returned.list[j].reason.text[2] = "parallel processing error"
    /\ \E t \in Tickets : \E i \in DOMAIN hist[t] :
           hist[t][i].kind = "json" /\ hist[t][i].assigned_to # AssignedName(hist[t][i])

\* C6: a response naming somebody outside the roster is never accepted: the
\* name is not emitted or recorded, the oracle is called a second time, and
\* if the second attempt fails too the task returns a fallback result.
C6_UnknownAssigneeRetriedThenFallback ==
    \A t \in Tickets :
        (Done(t) /\ IsUnknownAssignee(hist[t][1])) =>
            /\ AssignedName(hist[t][1]) \notin DOMAIN assignment_tracker
            /\ future[t].state = "result"
                   => future[t].result[1].assigned_to # AssignedName(hist[t][1])
            /\ Len(hist[t]) = 2
            /\ ~IsSuccess(hist[t][2]) => ReturnedFallback(t)

\* C7: after a response that is no JSON the task calls the oracle again; after
\* two such responses it returns the Fallback Scorer's choice with a reason
\* that names the parsing error.
C7_ParseFailureRetriedThenFallback ==
    \A t \in Tickets :
        /\ (hist[t] # <<>> /\ IsMalformedJson(hist[t][1]))
               => \/ pc[t] \in {"call", "in_flight"} /\ Len(hist[t]) = 1
                  \/ Len(hist[t]) = 2
        /\ (Done(t) /\ Len(hist[t]) = 2
              /\ IsMalformedJson(hist[t][1]) /\ IsMalformedJson(hist[t][2]))
               => /\ ReturnedFallback(t)
                  /\ future[t].result[1].reason.text[2] = "GPT parsing error"

C7_Witness ==
    \E t \in Tickets :
        /\ Done(t)
        /\ Len(hist[t]) = 2
        /\ IsMalformedJson(hist[t][1])
        /\ IsMalformedJson(hist[t][2])

\* failed attempts among the outcomes h of one ticket
RECURSIVE FailedAttempts(_)
FailedAttempts(h) ==
    IF h = <<>> THEN 0
    ELSE (IF IsSuccess(Head(h)) THEN 0 ELSE 1) + FailedAttempts(Tail(h))

\* C8: at most 2 oracle calls are made for a ticket, and a ticket's retry
\* counter counts failures of that ticket only: it never exceeds the number
\* of the ticket's own failed attempts, so a ticket that has not used its
\* attempts is still called whatever the other tickets went through.
C8_TwoAttemptsPerTicket ==
    \A t \in Tickets :
        /\ CallsMade(t) <= 2
        /\ retry_count[t] <= FailedAttempts(hist[t])
        /\ (pc[t] \in {"call", "in_flight"}) => CallsMade(t) <= 1 + FailedAttempts(hist[t])

C8_Witness ==
    \E t, u \in Tickets :
        /\ t # u
        /\ Done(u) /\ FailedAttempts(hist[u]) = 2
        /\ pc[t] = "in_flight" /\ Len(hist[t]) = 1 /\ retry_count[t] = 1

\* C9: an attempt failing with an error that is no parse error, no
\* rate-limit signal and no authentication failure is followed by a second
\* call when it was the first attempt, and by a fallback result when it was
\* the second; the task does not raise.
C9_UnknownErrorRetriedOnceThenFallback ==
    \A t \in Tickets :
        /\ (hist[t] # <<>> /\ IsUnknownError(hist[t][1]))
               => \/ pc[t] \in {"call", "in_flight"} /\ Len(hist[t]) = 1
                  \/ Len(hist[t]) = 2
        /\ (Len(hist[t]) = 2 /\ IsUnknownError(hist[t][2]))
               => /\ pc[t] \in {"fallback_lock", "fallback", "fallback_reason", "done"}
                  /\ Done(t) =>
                        /\ ReturnedFallback(t)
                        /\ future[t].result[1].reason.text[2] = "API error"
        /\ (hist[t] # <<>> /\ IsUnknownError(LastOutcome(t)))
               => future[t].state # "exception"

C9_Witness ==
    \E t \in Tickets :
        /\ Done(t)
        /\ Len(hist[t]) = 2
        /\ IsUnknownError(hist[t][1])
        /\ IsUnknownError(hist[t][2])

\* the cause a fallback reason has to name after outcome r
CauseNamed(reason, r) ==
    CASE IsMalformedJson(r) -> reason.text[2] = "GPT parsing error"
      [] IsAuthError(r) ->
            /\ reason.text[2] = "parallel processing error"
            /\ Contains(reason.text, <<"OpenAI API authentication error:">> \o r.msg)
      [] IsUnknownAssignee(r) ->
            Contains(reason.text, <<"Invalid developer name:">> \o AssignedName(r))
      [] OTHER -> reason.text[2] = "API error" /\ Contains(reason.text, r.msg)

RECURSIVE TrackerPointsFrom(_)
TrackerPointsFrom(i) ==
    IF i > Len(developers_df) THEN 0
    ELSE assignment_tracker[developers_df[i].name].story_points + TrackerPointsFrom(i + 1)

\* story points of the tickets i.. of the batch
RECURSIVE TicketPointsFrom(_)
TicketPointsFrom(i) ==
    IF i > NumTickets THEN 0
    ELSE StoryPoints(TicketRow(i)) + TicketPointsFrom(i + 1)

\* C11: when the batch has completed, the story points the tracker holds,
\* summed over the developers, equal the story points of all tickets of the
\* batch, whatever the interleaving of the tasks was.
C11_TrackerPointsEqualTicketPoints ==
    Batch => TrackerPointsFrom(1) = TicketPointsFrom(1)

\* what the scorer was called with
ScorerCalled == sc_pc = "returned"
PassesGate(dev) == RemainingCapacity(dev, sc_tracker) >= 10 * sc_ticket.story_points
GatePassers == {k \in DOMAIN developers_df : PassesGate(developers_df[k])}

\* C12: smart_fallback_assignment does not return a developer whose remaining
\* capacity is below the ticket's story points, unless every developer is
\* below them; then it returns a developer of largest remaining capacity.
C12_GateRespected ==
    ScorerCalled =>
        LET chosen == DevRow(sc_result)
        IN  /\ GatePassers # {} => PassesGate(chosen)
            /\ GatePassers = {} =>
                   \A k \in DOMAIN developers_df :
                       RemainingCapacity(developers_df[k], sc_tracker)
                           <= RemainingCapacity(chosen, sc_tracker)

C12_Witness ==
    /\ ScorerCalled
    /\ GatePassers # {}
    /\ \E k \in DOMAIN developers_df \ GatePassers :
           FallbackScore(developers_df[k], sc_ticket, sc_tracker)
               > FallbackScore(DevRow(sc_result), sc_ticket, sc_tracker)

\* the first row, in roster order, of largest score among the gate passers
BestPasser ==
    CHOOSE k \in GatePassers :
        /\ \A j \in GatePassers :
               FallbackScore(developers_df[j], sc_ticket, sc_tracker)
                   <= FallbackScore(developers_df[k], sc_ticket, sc_tracker)
        /\ \A j \in GatePassers :
               j < k => FallbackScore(developers_df[j], sc_ticket, sc_tracker)
                            < FallbackScore(developers_df[k], sc_ticket, sc_tracker)

\* C13: when at least one developer passes the gate, the scorer returns the
\* gate-passing developer of largest score, also when that score is negative
\* because of more than 10 in-batch tickets; among equal scores the first in
\* roster order.
C13_BestScoreAmongPassers ==
    (ScorerCalled /\ GatePassers # {}) => sc_result = developers_df[BestPasser].name

ZeroTracker == [n \in RosterNames |-> [tickets |-> 0, story_points |-> 0]]

WorkedExample ==
    /\ roster = 2
    /\ sc_tracker = ZeroTracker
    /\ sc_ticket.required_skill = <<"python">>
    /\ sc_ticket.story_points = 3

\* C14: roster A (1.0, 0, python, 5), B (1.0, 0, java, 2), C (0.5, 10, python,
\* 10), nothing assigned yet, ticket python of 3 points: the capacities are
\* 20, 20 and 5, A scores 18.5, C scores 13, and A is returned.
C14_WorkedExample ==
    (ScorerCalled /\ WorkedExample) =>
        /\ RemainingCapacity(DevRow(<<"A">>), sc_tracker) = 200
        /\ RemainingCapacity(DevRow(<<"B">>), sc_tracker) = 200
        /\ RemainingCapacity(DevRow(<<"C">>), sc_tracker) = 50
        /\ FallbackScore(DevRow(<<"A">>), sc_ticket, sc_tracker) = 1850
        /\ FallbackScore(DevRow(<<"C">>), sc_ticket, sc_tracker) = 1300
        /\ sc_result = <<"A">>

C14_Witness == ScorerCalled /\ WorkedExample /\ sc_result = <<"A">>

\* the remaining capacity as the spec writes it, in tenths
RemainingOf(k) ==
    developers_df[k].availability * (20 - developers_df[k].current_workload)
        - 10 * sc_tracker[developers_df[k].name].story_points

\* the first row, in roster order, of largest remaining capacity
FirstOfLargestRemaining ==
    CHOOSE k \in DOMAIN developers_df :
        /\ \A j \in DOMAIN developers_df : RemainingOf(j) <= RemainingOf(k)
        /\ \A j \in DOMAIN developers_df : j < k => RemainingOf(j) < RemainingOf(k)

\* C15: for every non-empty roster, tracker and ticket the scorer returns a
\* developer of the roster; when nobody passes the gate it is the developer of
\* largest remaining capacity, the first in roster order among equals.
C15_AlwaysSomeDeveloper ==
    ScorerCalled =>
        /\ sc_result \in RosterNames
        /\ GatePassers = {} => sc_result = developers_df[FirstOfLargestRemaining].name

C15_Witness ==
    /\ ScorerCalled
    /\ GatePassers = {}
    /\ \E j, k \in DOMAIN developers_df :
           /\ j < k
           /\ RemainingOf(j) = RemainingOf(k)
           /\ j = FirstOfLargestRemaining
           /\ sc_result = developers_df[j].name

\* C16: calculate_developer_capacity returns availability * (20 - workload)
\* for every input, and the result is negative when the workload is above 20
\* and the availability is positive.
C16_CapacityFormula ==
    cap_pc = "returned" =>
        /\ cap_result = cap_availability * (20 - cap_workload)
        /\ (cap_workload > 20 /\ cap_availability > 0) => cap_result < 0

C16_Witness ==
    /\ cap_pc = "returned"
    /\ cap_workload > 20
    /\ cap_availability > 0
    /\ cap_result < 0

\* C17: the returned list is ascending by ticket_id whatever the order in
\* which the tasks completed: the place of an entry is fixed by its ticket_id
\* alone (one more than the number of entries of smaller ticket_id), so equal
\* outcomes completed in another order give the same list.
C17_SortedByTicketId ==
    Batch =>
        \A i \in DOMAIN returned.list :
            Cardinality({j \in DOMAIN returned.list :
                            returned.list[j].ticket_id < returned.list[i].ticket_id})
                = i - 1

\* both tickets are returned, the one submitted last before the one submitted first
C17_Witness ==
    /\ Batch
    /\ Len(returned.list) = NumTickets
    /\ returned.list[1].ticket_id = TicketRow(2).id
    /\ TicketRow(2).id < TicketRow(1).id

\* C18: no malformed JSON, unknown assignee, rate-limit or unknown error leaves
\* assign_ticket_from_csv as an exception; an exception that reaches the caller
\* is a configuration error raised before any ticket was processed, or the
\* error of an oracle call that failed on authentication.
C18_PerTicketErrorsContained ==
    returned.state = "raised" =>
        \/ /\ api_key \in {"", "your_openai_api_key_here"}
           /\ returned.exception = ConfigurationError(api_key)
           /\ \A t \in Tickets : CallsMade(t) = 0
        \/ \E t \in Tickets :
               /\ hist[t] # <<>>
               /\ IsAuthError(LastOutcome(t))
               /\ returned.exception = AuthenticationError(LastOutcome(t).msg)

\* a batch returned although a task had raised on an unknown assignee, and
\* another ticket had met a malformed answer, a rate limit or an unknown error
C18_Witness ==
    /\ Batch
    /\ \E t, u \in Tickets :
           /\ future[t].state = "exception"
           /\ IsUnknownAssignee(LastOutcome(t))
           /\ hist[u] # <<>>
           /\ \/ IsMalformedJson(LastOutcome(u))
              \/ IsRateLimitError(LastOutcome(u))
              \/ IsUnknownError(LastOutcome(u))

\* C19: with a missing or placeholder API key assign_ticket_from_csv raises
\* before any ticket is processed: no task is submitted, no oracle call is
\* made, the tracker is not touched, and nothing but the raise happens.
C19_BadKeyRaisesBeforeAnyTicket ==
    api_key \in {"", "your_openai_api_key_here"} =>
        /\ submitted = 0
        /\ \A t \in Tickets : pc[t] = "unsubmitted" /\ CallsMade(t) = 0
        /\ assignment_tracker = << >>
        /\ assignments = << >>
        /\ mainpc \in {"config", "raised"}
        /\ mainpc = "raised" =>
               /\ returned.state = "raised"
               /\ returned.exception = ConfigurationError(api_key)

C19_Witness ==
    /\ api_key = "your_openai_api_key_here"
    /\ returned.state = "raised"

ActiveAssignments(ticket_id) ==
    {r \in db_assignments : r.ticket_id = ticket_id /\ r.status = "active"}

\* C20: in every reachable state of the persistence layer, whatever sequence
\* of create_assignment, save_assignments_batch, reassign_ticket,
\* remove_assignment and reset_all_assignments led to it, each ticket has at
\* most one assignment of status 'active'.
C20_AtMostOneActivePerTicket ==
    \A t \in DbTicketIds : Cardinality(ActiveAssignments(t)) <= 1

\* a ticket was assigned twice: the older assignment is removed, the newer active
C20_Witness ==
    \E r1, r2 \in db_assignments :
        /\ r1.ticket_id = r2.ticket_id
        /\ r1.id < r2.id
        /\ r1.status = "removed"
        /\ r2.status = "active"

\* C21: create_assignment, alone or in a batch, and remove_assignment succeed
\* for a ticket however many assignments the ticket has had before: no call
\* ends with an IntegrityError of the constraint on (ticket_id, status).
C21_CreateAndRemoveAlwaysSucceed == db_outcome # "IntegrityError"

\* this step is a persistence operation that leaves the database as d
DbStepTo(d) ==
    /\ db_ops' = db_ops + 1
    /\ db_assignments' = d.assignments
    /\ db_history' = d.history
    /\ db_workload' = d.workload
    /\ db_next_id' = d.next_id
    /\ db_outcome' = d.outcome

\* this step is an operation that is to leave the workloads up to date
WorkloadOperation ==
    \/ \E a \in AssignmentData :
           DbStepTo(create_assignment(DbNow, a.ticket_id, a.assigned_to, TRUE))
    \/ \E assignments_data \in BatchInputs :
           DbStepTo(save_assignments_batch(DbNow, assignments_data))
    \/ \E id \in 1..db_next_id : \E n \in DbDevelopers :
           DbStepTo(reassign_ticket(DbNow, id, n))
    \/ \E id \in 1..db_next_id : DbStepTo(remove_assignment(DbNow, id))
    \/ DbStepTo(reset_all_assignments(DbNow))

\* the step changed the set of active assignments of developer n
AffectedDeveloper(n) ==
    {r \in db_assignments : r.status = "active" /\ r.assigned_to = n}
        # {r \in db_assignments' : r.status = "active" /\ r.assigned_to = n}

\* C22: after save_assignments_batch, create_assignment, reassign_ticket,
\* remove_assignment or reset_all_assignments has succeeded, every developer
\* whose active assignments the operation changed (also the one whose
\* assignment was superseded) has current_workload equal to the story points
\* of the tickets of the assignments that are now active for that developer.
C22_WorkloadIsSumOfActive ==
    [][ (WorkloadOperation /\ db_outcome' = "ok") =>
            \A n \in DbDevelopers :
                AffectedDeveloper(n) =>
                    db_workload'[n] =
                        TotalStoryPoints({r \in db_assignments' :
                            r.status = "active" /\ r.assigned_to = n}) ]_vars

\* C23: the assignment history is append-only: every step of the persistence
\* layer leaves the rows already written in place and unchanged, so the old
\* history is a prefix of the new one.
C23_HistoryAppendOnly ==
    [][ /\ Len(db_history') >= Len(db_history)
        /\ SubSeq(db_history', 1, Len(db_history)) = db_history ]_vars

\* the remaining capacity the reason of task t would report if built now
TaskWouldReport(t) ==
    ReportedRemaining(assigned_name[t], TicketRow(t), assignment_tracker)

\* the remaining capacity the reason of the except block would report if built now
MainWouldReport ==
    ReportedRemaining(main_name, TicketRow(main_ticket), assignment_tracker)

\* the remaining capacity reported equals the one the scorer saw: it does so
\* when the developer is chosen, and stays so until the reason is built
ReportedIsWhatScorerSaw ==
    /\ \A t \in Tickets :
           /\ (pc[t] = "fallback" /\ pc'[t] = "fallback_reason") =>
                  TaskWouldReport(t)' =
                      RemainingCapacity(DevRow(assigned_name'[t]), assignment_tracker)
           /\ (pc[t] = "fallback_reason" /\ pc'[t] = "fallback_reason") =>
                  TaskWouldReport(t)' = TaskWouldReport(t)
    /\ (mainpc = "backstop" /\ mainpc' = "backstop_reason") =>
           MainWouldReport' = RemainingCapacity(DevRow(main_name'), assignment_tracker)
    /\ (mainpc = "backstop_reason" /\ mainpc' = "backstop_reason") =>
           MainWouldReport' = MainWouldReport

\* the reads of the tracker that build a fallback reason are made by the
\* holder of the lock
ReasonReadsUnderLock ==
    /\ \A t \in Tickets :
           (pc[t] = "fallback_reason" /\ pc'[t] = "done") => tracker_lock = t
    /\ (mainpc = "backstop_reason" /\ mainpc' = "collect") => tracker_lock = MainThread

\* C24: every read and write of the tracker is made while the tracker lock is
\* held, also the reads for the remaining capacity of a fallback reason, and
\* so the remaining capacity a fallback reason reports is the one the scorer
\* saw when it chose the developer, for every interleaving.
C24_TrackerAccessUnderLock ==
    [][ReasonReadsUnderLock /\ ReportedIsWhatScorerSaw]_vars

\* C25: no task holds the tracker lock while its oracle call is in flight or
\* while it sleeps for a rate-limit back-off.
C25_NoLockAcrossCallOrSleep ==
    \A t \in Tickets : pc[t] \in {"call", "in_flight", "sleep"} => tracker_lock # t

\* a call is in flight and a task sleeps while somebody else holds the lock
C25_Witness ==
    \E t, u \in Tickets :
        /\ pc[t] = "in_flight"
        /\ tracker_lock \notin {FreeLock, t}
        /\ pc[u] \in {"snapshot", "record", "fallback"}

\* story points of a set of tickets of the batch
RECURSIVE TicketPointsOf(_)
TicketPointsOf(S) ==
    IF S = {} THEN 0
    ELSE LET t == CHOOSE x \in S : TRUE
         IN  StoryPoints(TicketRow(t)) + TicketPointsOf(S \ {t})

\* the tracker after the records of the tickets in DOMAIN f, ticket t for f[t]
TrackerAfter(f) ==
    [n \in RosterNames |->
        [tickets |-> Cardinality({t \in DOMAIN f : f[t] = n}),
         story_points |-> TicketPointsOf({t \in DOMAIN f : f[t] = n})]]

\* the trackers that whole record operations can produce
WholeTrackers ==
    UNION { {TrackerAfter(f) : f \in [S -> RosterNames]} : S \in SUBSET Tickets }

\* C26: the snapshot of a prompt is not torn: the tickets count and story-point
\* sum of every developer come from one set of completed records, and the
\* developer listing and the distribution summary show the same tracker state.
C26_SnapshotNotTorn ==
    \A t \in Tickets :
        prompt[t] # NoPrompt =>
            \E tracker \in WholeTrackers :
                /\ \A i \in DOMAIN developers_df :
                       /\ prompt[t].developer_info[i].name = developers_df[i].name
                       /\ prompt[t].developer_info[i].assigned_tickets
                              = tracker[developers_df[i].name].tickets
                       /\ prompt[t].developer_info[i].assigned_points
                              = tracker[developers_df[i].name].story_points
                /\ DOMAIN prompt[t].assignment_summary
                       = {n \in RosterNames : tracker[n].tickets > 0}
                /\ \A n \in DOMAIN prompt[t].assignment_summary :
                       prompt[t].assignment_summary[n] = tracker[n]

\* a prompt that shows an earlier record, while the tracker has moved on
C26_Witness ==
    \E t \in Tickets :
        /\ prompt[t] # NoPrompt
        /\ prompt[t].assignment_summary # << >>
        /\ \E n \in RosterNames :
               assignment_tracker[n].tickets
                   > prompt[t].developer_info[
                         CHOOSE i \in DOMAIN developers_df : developers_df[i].name = n
                     ].assigned_tickets

\* C27: when an exception has escaped the task of a ticket, the orchestrator
\* appends one result for the ticket, chosen by the Fallback Scorer and
\* recorded in the tracker under the lock; the ticket is in the returned list.
C27_EscapedExceptionGetsFallback ==
    /\ mainpc = "backstop" => tracker_lock = MainThread
    /\ mainpc = "backstop_reason" =>
           assignment_tracker[main_name].tickets > main_before
    /\ \A t \in Tickets :
           (future[t].state = "exception" /\ t \in collected) =>
               /\ Cardinality(EntriesOf(t)) = 1
               /\ \A i \in EntriesOf(t) :
                      /\ IsFallbackReason(assignments[i].reason)
                      /\ assignments[i].reason.text[2] = "parallel processing error"
                      /\ assignments[i].assigned_to \in RosterNames
                      /\ assignment_tracker[assignments[i].assigned_to].tickets >= 1
               /\ Batch => TicketRow(t).id \in OutputIds

C27_Witness ==
    /\ Batch
    /\ \E t \in Tickets :
           /\ future[t].state = "exception"
           /\ \E i \in DOMAIN returned.list :
                  /\ returned.list[i].ticket_id = TicketRow(t).id
                  /\ IsFallbackReason(returned.list[i].reason)

\* C28: before any task starts the tracker has an entry with tickets = 0 and
\* story_points = 0 for every developer of the roster, and the names the
\* batch looks up in the tracker always have an entry.
C28_TrackerInitialised ==
    /\ (mainpc = "submit" /\ submitted = 0) =>
           /\ DOMAIN assignment_tracker = RosterNames
           /\ \A n \in RosterNames :
                  assignment_tracker[n] = [tickets |-> 0, story_points |-> 0]
    /\ (\E t \in Tickets : pc[t] # "unsubmitted") =>
           DOMAIN assignment_tracker = RosterNames
    /\ \A t \in Tickets :
           pc[t] \in {"record_lock", "record", "fallback_reason"} =>
               assigned_name[t] \in DOMAIN assignment_tracker
    /\ mainpc = "backstop_reason" => main_name \in DOMAIN assignment_tracker

C28_Witness ==
    /\ \E t \in Tickets : pc[t] = "record" /\ assigned_name[t] \in RosterNames
    /\ \E n \in RosterNames : assignment_tracker[n].tickets > 0

\* C29: at every moment of a batch at most max_workers tasks execute, and so
\* at most max_workers oracle calls are in flight, while every ticket that
\* was submitted has a task of its own that is done when the batch returns.
C29_AtMostMaxWorkersRunning ==
    /\ Cardinality(Running) <= max_workers
    /\ Cardinality({t \in Tickets : pc[t] = "in_flight"}) <= max_workers
    /\ \A t \in Tickets : t <= submitted <=> pc[t] # "unsubmitted"
    /\ Batch => \A t \in Tickets : Done(t)

\* a ticket waits in the queue because the only worker is busy with a call
C29_Witness ==
    /\ max_workers = 1
    /\ \E t, u \in Tickets : pc[t] = "in_flight" /\ pc[u] = "pending"

\* C30: on a rate-limit failure the task waits 2 seconds times (the number of
\* failed attempts the ticket had before, plus one), and longer than at any
\* earlier rate-limit failure of the same ticket.
C30_LinearBackoff ==
    [][ \A t \in Tickets :
            (pc[t] # "sleep" /\ pc'[t] = "sleep") =>
                /\ wait_time'[t] = 2 * ((Len(hist'[t]) - 1) + 1)
                /\ wait_time'[t] > wait_time[t] ]_vars

\* the second rate-limit failure of a ticket: it sleeps 4 seconds
C30_Witness ==
    \E t \in Tickets :
        /\ pc[t] = "sleep"
        /\ Len(hist[t]) = 2
        /\ IsRateLimitError(hist[t][1])
        /\ IsRateLimitError(hist[t][2])
        /\ wait_time[t] = 4

\* the step changes the tracker entry of developer n
EntryChanged(n) ==
    /\ assignment_tracker # << >>
    /\ assignment_tracker'[n] # assignment_tracker[n]

\* C31: on oracle success the task records the assignment atomically: in one
\* step, made by the holder of the lock, the tickets counter of the chosen
\* developer grows by 1 and the story_points counter by the ticket's points;
\* no step shows one counter moved without the other.
C31_RecordIsAtomic ==
    [][ /\ \A t \in Tickets :
               (pc[t] = "record" /\ pc'[t] # "record") =>
                   /\ tracker_lock = t
                   /\ assignment_tracker'[assigned_name[t]] =
                          [tickets |-> assignment_tracker[assigned_name[t]].tickets + 1,
                           story_points |->
                               assignment_tracker[assigned_name[t]].story_points
                                   + StoryPoints(TicketRow(t))]
        /\ \A n \in RosterNames :
               EntryChanged(n) =>
                   /\ assignment_tracker'[n].tickets = assignment_tracker[n].tickets + 1
                   /\ \E t \in Tickets :
                          assignment_tracker'[n].story_points
                              = assignment_tracker[n].story_points
                                    + StoryPoints(TicketRow(t)) ]_vars

\* an accepted answer was recorded while another task waits for the lock or
\* is inside its own critical section
C31_Witness ==
    \E t, u \in Tickets :
        /\ future[t].state = "result"
        /\ IsSuccess(LastOutcome(t))
        /\ assignment_tracker[future[t].result[1].assigned_to].tickets >= 1
        /\ pc[u] \in {"snapshot_lock", "snapshot", "record_lock", "fallback_lock"}

\* results of the returned list that name developer n
ResultsFor(n) == {i \in DOMAIN returned.list : returned.list[i].assigned_to = n}

\* the tickets of the batch whose result in the returned list names developer n
TicketsReturnedFor(n) ==
    {t \in Tickets : \E i \in ResultsFor(n) : returned.list[i].ticket_id = TicketRow(t).id}

\* the tracker agrees with the returned list
TrackerMatchesResults ==
    \A n \in RosterNames :
        /\ assignment_tracker[n].tickets = Cardinality(ResultsFor(n))
        /\ assignment_tracker[n].story_points = TicketPointsOf(TicketsReturnedFor(n))

\* tickets the tracker holds for rows i.. of the roster
RECURSIVE TrackerTicketsFrom(_)
TrackerTicketsFrom(i) ==
    IF i > Len(developers_df) THEN 0
    ELSE assignment_tracker[developers_df[i].name].tickets + TrackerTicketsFrom(i + 1)

\* C32: after a batch has returned, the tracker's tickets count of every
\* developer is the number of returned results that name the developer, its
\* story_points their tickets' points, and each ticket of the batch was
\* recorded exactly once.
C32_TrackerMatchesReturnedList ==
    Batch => (TrackerMatchesResults /\ TrackerTicketsFrom(1) = NumTickets)

\* C33: a failed oracle attempt of any class leaves the tracker as it was; the
\* tracker changes only in the step in which a task records an accepted
\* answer or a fallback choice (or the orchestrator its own), and then in the
\* entry of the chosen developer only.
C33_TrackerFrame ==
    [][ /\ \A t \in Tickets :
               (pc[t] = "in_flight" /\ pc'[t] # "in_flight"
                   /\ ~IsSuccess(hist'[t][Len(hist'[t])]))
                   => assignment_tracker' = assignment_tracker
        /\ \A n \in RosterNames :
               EntryChanged(n) =>
                   /\ \A m \in RosterNames \ {n} : ~EntryChanged(m)
                   /\ \/ \E t \in Tickets :
                             /\ pc[t] = "record" /\ pc'[t] = "done"
                             /\ n = assigned_name[t]
                      \/ \E t \in Tickets :
                             /\ pc[t] = "fallback" /\ pc'[t] = "fallback_reason"
                             /\ n = assigned_name'[t]
                      \/ /\ mainpc = "backstop" /\ mainpc' = "backstop_reason"
                         /\ n = main_name' ]_vars

\* a ticket failed once, was accepted at the second attempt and recorded,
\* and the tracker holds nothing else
C33_Witness ==
    \E t \in Tickets :
        /\ Done(t)
        /\ Len(hist[t]) = 2
        /\ ~IsSuccess(hist[t][1])
        /\ IsSuccess(hist[t][2])
        /\ TrackerTicketsFrom(1) = 1

\* threads inside a with tracker_lock block
InCriticalSection ==
    {t \in Tickets : pc[t] \in {"snapshot", "record", "fallback"}}
        \cup (IF mainpc = "backstop" THEN {MainThread} ELSE {})

\* somebody passes the gate for the ticket on the tracker as it is, and the
\* developer recorded by the step has not gone below zero
ChosenKeepsCapacity(ticket, name) ==
    (\E k \in DOMAIN developers_df :
        RemainingCapacity(developers_df[k], assignment_tracker)
            >= 10 * StoryPoints(ticket))
        => RemainingCapacity(DevRow(name), assignment_tracker') >= 0

\* C34: in the fallback path the scorer reads the tracker and its choice is
\* recorded in one critical section: one thread at a time is inside, so no
\* two fallbacks select on the same tracker state, and a developer chosen
\* through the capacity gate has remaining capacity >= 0 right after the record.
C34_FallbackSelectsAndRecordsAtomically ==
    [][ /\ Cardinality(InCriticalSection) <= 1
        /\ InCriticalSection \subseteq {tracker_lock}
        /\ \A t \in Tickets :
               (pc[t] = "fallback" /\ pc'[t] = "fallback_reason") =>
                   ChosenKeepsCapacity(TicketRow(t), assigned_name'[t])
        /\ (mainpc = "backstop" /\ mainpc' = "backstop_reason") =>
               ChosenKeepsCapacity(TicketRow(main_ticket), main_name') ]_vars

\* both tickets went to the fallback; the second found the developer of the
\* first full and was given the other one
C34_Witness ==
    /\ roster = TightRoster
    /\ Batch
    /\ Len(returned.list) = NumTickets
    /\ \A i \in DOMAIN returned.list : IsFallbackReason(returned.list[i].reason)
    /\ returned.list[1].assigned_to # returned.list[2].assigned_to

\* C35: if every oracle call returns or raises and the lock is fair, every
\* task that was submitted finishes and assign_ticket_from_csv returns or
\* raises.
C35_BatchTerminates ==
    /\ <>(returned.state \in {"returned", "raised"})
    /\ \A t \in Tickets : (pc[t] # "unsubmitted") ~> Done(t)

\* a batch returned after a ticket slept for a rate limit and was retried
C35_Witness ==
    /\ Batch
    /\ \E t \in Tickets :
           /\ Len(hist[t]) = 2
           /\ IsRateLimitError(hist[t][1])
           /\ wait_time[t] > 0

\* story points of the assignments that are active for developer n in rows
ActiveStoryPoints(rows, n) ==
    TotalStoryPoints({r \in rows : r.status = "active" /\ r.assigned_to = n})

\* no assignment that is 'removed' is 'active' after the step
RemovedStaysRemoved ==
    \A r \in db_assignments : \A r2 \in db_assignments' :
        (r.status = "removed" /\ r2.id = r.id) => r2.status = "removed"

\* the step left developer n with a removed assignment it did not have before:
\* one the step removed, or a removed one the step gave to n
NewlyRemovedFor(n) ==
    \E r \in db_assignments' \ db_assignments :
        r.status = "removed" /\ r.assigned_to = n

\* developer n's workload counted the active assignments and nothing else
\* before the step, and the step leaves it so
NoRemovedContribution(n) ==
    (db_workload[n] = ActiveStoryPoints(db_assignments, n) /\ NewlyRemovedFor(n))
        => db_workload'[n] = ActiveStoryPoints(db_assignments', n)

\* C36: the status of an assignment only moves from 'active' to 'removed' (or
\* the row is deleted by reset_all_assignments): no operation, reassign_ticket
\* of a removed assignment included, makes a removed assignment active again,
\* and no operation leaves the story points of an assignment that is now
\* removed in the workload of its developer.
C36_RemovedIsFinal ==
    [][ /\ RemovedStaysRemoved
        /\ (WorkloadOperation /\ db_outcome' = "ok") =>
               \A n \in DbDevelopers : NoRemovedContribution(n) ]_vars

\* the half of C36 about the status alone
C36_StatusOnly == [][RemovedStaysRemoved]_vars

\* this step is a call of the reassign or of the remove endpoint with an
\* assignment_id that no assignment has
NotFoundStep ==
    \E id \in 1..db_next_id :
        /\ get_assignment_by_id(db_assignments, id) = {}
        /\ \/ \E n \in DbDevelopers : DbStepTo(reassign_ticket(DbNow, id, n))
           \/ DbStepTo(remove_assignment(DbNow, id))

\* the step wrote no history row and changed no assignment and no workload
NothingWritten ==
    /\ db_history' = db_history
    /\ db_assignments' = db_assignments
    /\ db_workload' = db_workload

\* C38: when the assignment id does not exist the reassign and the remove
\* endpoint answer with status 404 (Assignment not found), and the call writes
\* no history row and changes no assignment and no developer's workload.
C38_NotFoundAnswers404 ==
    [][ NotFoundStep => (ep_response' = 404 /\ NothingWritten) ]_vars

\* the half of C38 about the database alone
C38_NotFoundWritesNothing == [][ NotFoundStep => NothingWritten ]_vars

\* the upload has a file name that does not end in .csv, or is a table that
\* lacks a required column
RejectedUpload ==
    \/ ~EndsWith(ep_filename, CsvSuffix)
    \/ (ep_contents.kind = "csv" /\ ~(required_columns \subseteq ep_contents.columns))

\* C37: POST /assign-tickets/ answers with status 400 when the name of the
\* uploaded file does not end in .csv or when one of the columns id,
\* description, story_points, required_skill is missing, and no assignment run
\* is started for such an upload.
C37_BadUploadAnswers400 ==
    RejectedUpload =>
        /\ ~ep_run
        /\ ep_pc = "responded" => ep_response = 400

\* the half of C37 about the run: no run is started for such an upload
C37_BadUploadStartsNoRun == RejectedUpload => ~ep_run

====
